---- MODULE Spec2Model ----
(***************************************************************************)
(* Turn orchestration and event streaming of remote-codexapp.              *)
(*                                                                         *)
(*   Spec        the gateway process (sessiond): CodexManager, its         *)
(*               runners and CodexMcpClient approval state, the HTTP       *)
(*               handlers and the per-conversation gateway stream.         *)
(*   ManagerSpec CodexManager called directly, with a caller's signal.     *)
(*   StartSpec   POST /v1/chats/start and runTurn on busy conversations.   *)
(*   ConfigSpec  successive turns under changing execution configs.        *)
(*   DedupSpec   the assistant-text de-duplication of CodexMcpClient.      *)
(*   BufSpec     the event buffers (MemoryStore stream, gateway stream).   *)
(*   BridgeSpec  the cursor handling of SessiondClient.runTurn and         *)
(*               syncStreamFromSessiond against a gateway stream.          *)
(*   TurnSpec    StartSpec with every agent call returning or failing.     *)
(*   ApproveSpec approvals requested, approved by any id, and aborted.     *)
(*   StoreSpec   the web server's MemoryStore stream, its subscribers and  *)
(*               GET /api/chats/:chatId/stream.                            *)
(*   RateSpec    normalizeRateLimitWindow over raw rate-limit windows.     *)
(*   RequestSpec SessiondClient.requestJson and ensureStarted.             *)
(*   IdentSpec   the session and conversation ids CodexMcpClient harvests. *)
(*   ResponseSpec toElicitResponse over approval decisions.                *)
(*   HeartbeatSpec the heartbeat timer of CodexManager.runTurn.            *)
(*   StopSpec    stopActiveClaudeProcess on the claude subprocess.         *)
(*   MirrorSpec  the web server mirroring a turn's events into the store.  *)
(*   WebSpec     startChatTurn with the store's stream and the bridge.     *)
(*   CallsSpec   two agent calls in a row on one CodexMcpClient.           *)
(*   SinkSpec    events and output lines of every shape at the handlers.   *)
(*   SessionSpec turns of a conversation that holds an agent session.      *)
(*   ForwardSpec one turn of SessiondClient.runTurn and what it forwards.  *)
(*   LocalSpec   the web server's turn pump, sync and reconcile against    *)
(*               the gateway.                                              *)
(*   EnsureSpec  concurrent callers of SessiondClient.ensureStarted.       *)
(***************************************************************************)
EXTENDS Integers, Sequences, FiniteSets, TLC

\* ------------------------------------------------------------------ bounds
\* Runner objects alive at a time (referred to by the map, a call in flight or
\* a listener).
MaxRunners == 2
\* Accepted runTurn calls over a run of the model.
MaxTurns == 2
\* Elicitation (approval) requests over a run of the model.
MaxApprovals == 2
\* Events a stream is driven to in Spec before the agent falls silent.
MaxStreamEvents == 3
\* BufSpec: the events a buffer is short of its capacity where the model
\* picks it up, and the events appended to it from there between two resets.
BufMargin == 2
MaxAppends == 5
\* StoreSpec: the events appended to the store's stream over a run, and the
\* responses of the stream endpoint.
MaxStoreAppends == 3
MaxConnections == 2
\* RequestSpec: the failed healthChecks of ensureStarted's loop before its
\* deadline.
MaxHealthChecks == 2
\* IdentSpec: the distinct ids the agent sends, and the events and responses
\* of one client.
MaxAgentIds == 3
MaxHarvests == 3
\* ResponseSpec: the decisions answered.
MaxResponses == 3
\* HeartbeatSpec: the seconds a call is followed for.
MaxClock == 21
\* StopSpec: the calls of stopActiveClaudeProcess for one subprocess.
MaxStops == 2
\* MirrorSpec: the events mirrored into the store after the start event.
MaxMirrored == 3
\* SinkSpec: the events and output lines of one agent call.
MaxSinkEvents == 2
\* LocalSpec: the events the web server appends to its buffer over a run.
MaxLocalEvents == 6
\* EnsureSpec: the ensureStarted attempts and the callers of a run.
MaxAttempts == 2
MaxCallers == 3

\* ------------------------------------------------------- program constants
\* const maxEvents = 4000 in the gateway's appendStreamEvent.
GatewayMaxEvents == 4000
\* const maxEvents = 2000 in MemoryStore.appendStreamEvent.
StoreMaxEvents == 2000
\* const heartbeatEveryMs = 10_000 in CodexManager.runTurn, in seconds.
HeartbeatEvery == 10
\* The 1200 ms of the killer timeout in stopActiveClaudeProcess, in tenths of
\* a second.
KillGrace == 12

VARIABLES
  runners,        \* CodexManager.runners: conversation key -> runner object (0: no entry)
  heap,           \* the RunnerState objects, by identity
  turns,          \* the accepted runTurn calls: their position and what they hold
  waiters,        \* suspended elicitation request handlers
  streamsByChatKey,  \* gateway: conversation key -> ChatStream
  reply,          \* the answer to the request handled last, kept when it was a
                  \* start or runTurn that was refused: "chat_busy", else ""
  dedup,          \* DedupSpec: one CodexMcpClient during one agent call, the
                  \* events its backend has yet to send and what it emitted
  buf,            \* BufSpec: one event buffer, of the gateway or of MemoryStore,
                  \* and the number of events appended to it since its reset
  bridge,         \* BridgeSpec: the web server's SessiondClient (its known
                  \* cursor), its turn pumps and syncStreamFromSessiond
  store,          \* StoreSpec: one conversation's MemoryStore stream, its
                  \* listeners and the responses of the stream endpoint
  request,        \* RequestSpec: one SessiondClient.requestJson call
  ident,          \* IdentSpec: the identifiers one CodexMcpClient has harvested
  call,           \* RateSpec, ResponseSpec: a pure function's argument and result
  proc            \* HeartbeatSpec, StopSpec, MirrorSpec, SinkSpec, CallsSpec,
                  \* SessionSpec, ForwardSpec, LocalSpec, EnsureSpec: one
                  \* turn's timer, agent subprocess, mirrored events, event
                  \* sink or history, the web server's pumps, or the
                  \* ensureStarted attempts and callers

\* The state of the gateway process.
gateway == <<runners, heap, turns, waiters, streamsByChatKey>>

\* The state of the other specifications.
\* The state of StoreSpec, RequestSpec, IdentSpec, RateSpec and ResponseSpec.
rest == <<store, request, ident, call, proc>>

aux == <<dedup, buf, bridge, rest>>

\* The state of every specification but those four.
base == <<runners, heap, turns, waiters, streamsByChatKey, reply, dedup, buf, bridge>>

\* The state of every specification that does not use proc.
others ==
  <<runners, heap, turns, waiters, streamsByChatKey, reply, dedup, buf, bridge,
    store, request, ident, call>>

vars ==
  <<runners, heap, turns, waiters, streamsByChatKey, reply, dedup, buf, bridge,
    store, request, ident, call, proc>>

\* ------------------------------------------------------------------ values
Keys == {"s1:c1"}
NoRunner == 0
RunnerIds == 1..MaxRunners
TurnIds == 1..MaxTurns
WaiterIds == 1..MaxApprovals

Undefined == "undefined"
Null == "null"

Instances == {"default", "alt"}

\* The turn execution configs of the model: every component set, or exactly
\* one of the five left undefined.
BaseConfig ==
  [cwd |-> "/w", sandbox |-> "read-only", approvalPolicy |-> "never",
   model |-> "m", reasoningEffort |-> "low"]
ConfigFields == {"cwd", "sandbox", "approvalPolicy", "model", "reasoningEffort"}
Configs ==
  {BaseConfig} \cup {[BaseConfig EXCEPT ![f] = Undefined] : f \in ConfigFields}

\* v ?? null
NullishCoalesce(v) == IF v = Undefined THEN Null ELSE v

\* sessionConfigKey: JSON.stringify of the five components in a fixed key
\* order, undefined written as null. Two such strings are equal exactly when
\* the five written values are equal, so the key is the record of them.
sessionConfigKey(config) ==
  [cwd |-> NullishCoalesce(config.cwd),
   sandbox |-> NullishCoalesce(config.sandbox),
   approvalPolicy |-> NullishCoalesce(config.approvalPolicy),
   model |-> NullishCoalesce(config.model),
   reasoningEffort |-> NullishCoalesce(config.reasoningEffort)]

\* RunnerState.sessionConfigKey before any startSession has returned.
UndefinedKey == [f \in ConfigFields |-> Undefined]

\* A JavaScript Map, as the function from its keys to their values.
EmptyMap == [x \in {} |-> 0]
MapSet(m, k, v) == [x \in (DOMAIN m) \cup {k} |-> IF x = k THEN v ELSE m[x]]
MapDelete(m, k) == [x \in (DOMAIN m) \ {k} |-> m[x]]

\* --------------------------------------------------------- CodexMcpClient
\* The fields of a CodexMcpClient the runner reads and writes.
\*   sessionId          0 is null
\*   pendingApprovals   approval id -> waiter (the resolver stored under it)
\*   onEvent            the turn whose emit closure is registered, 0 is null
NewClient ==
  [sessionId |-> 0,
   pendingApprovals |-> EmptyMap,
   sawAssistantTextInFlight |-> FALSE,
   onEvent |-> 0,
   approvalSeq |-> 0]

hasSession(c) == c.sessionId # 0

hasPendingApprovals(c) == DOMAIN c.pendingApprovals # {}

\* Canonical runner events. A text is the sequence of its characters.
AgentMessage(text) == [type |-> "agent_message", message |-> text]
RawEvent == [type |-> "raw", message |-> <<>>]

\* The codex/event notification handler on msg, sawAssistantTextInFlight
\* being saw: the flag afterwards and the canonical events emitted.
\*   agent_message_delta          emitted, flag set
\*   agent_message_content_delta  ignored
\*   agent_message                emitted when the flag is clear, flag set
\*   raw_response_item            its first non-empty output_text (msg.text,
\*                                empty when it has none) emitted when the
\*                                flag is clear, flag set
\*   anything else, and what the guards above let through: raw
CodexEvent(saw, msg) ==
  CASE msg.type = "agent_message_delta" ->
         [saw |-> TRUE, emits |-> <<AgentMessage(msg.text)>>]
    [] msg.type = "agent_message_content_delta" ->
         [saw |-> saw, emits |-> <<>>]
    [] msg.type = "agent_message" /\ ~saw ->
         [saw |-> TRUE, emits |-> <<AgentMessage(msg.text)>>]
    [] msg.type = "raw_response_item" /\ ~saw /\ msg.text # <<>> ->
         [saw |-> TRUE, emits |-> <<AgentMessage(msg.text)>>]
    [] OTHER ->
         [saw |-> saw, emits |-> <<RawEvent>>]

\* handleClaudeJsonLine on payload: a stream_event text delta is emitted and
\* sets the flag; an assistant payload with text is emitted when the flag is
\* clear; the payload always goes out as raw as well.
ClaudeJsonLine(saw, payload) ==
  LET isDelta == payload.type = "stream_event"
      saw1 == saw \/ isDelta
      isFull == payload.type = "assistant" /\ ~saw1 /\ payload.text # <<>>
  IN [saw |-> saw1 \/ isFull,
      emits |-> (IF isDelta THEN <<AgentMessage(payload.text)>> ELSE <<>>)
                \o (IF isFull THEN <<AgentMessage(payload.text)>> ELSE <<>>)
                \o <<RawEvent>>]

\* RunnerState as CodexManager.get creates it.
NewRunner(instanceId) ==
  [client |-> NewClient,
   busy |-> FALSE,
   abort |-> 0,
   sessionConfigKey |-> UndefinedKey,
   instanceId |-> instanceId]

\* A heap slot no get() has filled yet.
FreeSlot == NewRunner("default")

\* ------------------------------------------------------------ ChatStream
NewStream == [status |-> "idle", nextId |-> 1, events |-> <<>>]

\* resetStream leaving the numbering where it is.
resetStreamKeepingIds(s) == [s EXCEPT !.status = "running", !.events = <<>>]

\* resetStream of the gateway: the log is emptied, numbering restarts at 1
\* and the status is running.
resetStream(s) == [s EXCEPT !.status = "running", !.nextId = 1, !.events = <<>>]

\* The status an appended event of this kind latches.
StatusAfter(status, event) ==
  IF event \in {"turn_error", "error"} THEN "error"
  ELSE IF event = "done" THEN "done"
  ELSE status

\* A trim that drops from the wrong end of the log.
TrimNewest(events, maxEvents) ==
  IF Len(events) > maxEvents THEN SubSeq(events, 1, maxEvents) ELSE events

\* events.splice(0, events.length - maxEvents) once the log is over maxEvents.
TrimEvents(events, maxEvents) ==
  IF Len(events) > maxEvents
  THEN SubSeq(events, Len(events) - maxEvents + 1, Len(events))
  ELSE events

\* appendStreamEvent, of the gateway and of MemoryStore alike but for the
\* capacity: the event takes nextId, nextId moves on, the status latches, the
\* log is trimmed.
AppendStreamEvent(s, event, data, maxEvents) ==
  [s EXCEPT !.nextId = s.nextId + 1,
            !.events = TrimEvents(Append(s.events, [id |-> s.nextId, event |-> event, data |-> data]),
                                  maxEvents),
            !.status = StatusAfter(s.status, event)]

appendStreamEvent(s, event, data) == AppendStreamEvent(s, event, data, GatewayMaxEvents)

RECURSIVE appendAll(_, _)
\* appendStreamEvent for each [event, data] of a sequence, in order.
appendAll(s, es) ==
  IF es = <<>> THEN s
  ELSE appendAll(appendStreamEvent(s, Head(es).event, Head(es).data), Tail(es))

\* listStreamEventsSince with >= for >: the event at the cursor comes again.
listStreamEventsFrom(s, afterId) == SelectSeq(s.events, LAMBDA e : e.id >= afterId)

\* listStreamEventsSince: events.filter(e => e.id > afterId).
listStreamEventsSince(s, afterId) == SelectSeq(s.events, LAMBDA e : e.id > afterId)

\* getStreamRuntime().lastEventId: Math.max(0, nextId - 1).
lastEventId(s) == IF s.nextId - 1 > 0 THEN s.nextId - 1 ELSE 0

\* The gateway's onEvent of a started turn: the stream event kind a canonical
\* runner event is written as.
StreamKind(e) ==
  CASE e = "agent_message" -> "delta"
    [] e = "approval_request" -> "approval_request"
    [] e = "progress" -> "progress"
    [] OTHER -> "codex_event"

\* ------------------------------------------------------------ CodexManager
\* isBusy: Boolean(runners.get(key)?.busy).
isBusy(k) == runners[k] # NoRunner /\ heap[runners[k]].busy

\* get() throws chat_busy: the entry is bound to another instance and busy.
GetThrows(k, inst) ==
  /\ runners[k] # NoRunner
  /\ heap[runners[k]].instanceId # inst
  /\ heap[runners[k]].busy

\* get() makes a new RunnerState: no entry, or an idle entry of another instance.
GetCreates(k, inst) ==
  \/ runners[k] = NoRunner
  \/ heap[runners[k]].instanceId # inst


\* The accepted calls so far, and the record the next one takes.
UsedTurns == {t \in TurnIds : turns[t].st # "none"}
NextTurn == Cardinality(UsedTurns) + 1
InFlight(t) == turns[t].st = "calling"

\* The record of an accepted runTurn call. st is none (not made yet), calling
\* (runTurn is at its agent call) or settled (runTurn has returned or
\* thrown). controller is the state of
\* the AbortController runTurn made for it; signal that of the caller's own
\* AbortSignal, none when the caller passed none.
NoTurn ==
  [st |-> "none", key |-> "", runner |-> 0, gateway |-> FALSE,
   nextConfigKey |-> UndefinedKey, signal |-> "none", controller |-> "live",
   call |-> "", sessionReset |-> FALSE, cancels |-> 0, pendingAtCancel |-> 0]

\* A suspended elicitation request handler: the promise it awaits.
NoWaiter == [st |-> "none", turn |-> 0, id |-> 0, decision |-> "", resolutions |-> 0]

\* The waiters so far, and the waiter the next elicitation request is.
UsedWaiters == {w \in WaiterIds : waiters[w].st # "none"}
NextWaiter == Cardinality(UsedWaiters) + 1

\* The resolvers a pendingApprovals map holds.
Resolvers(c) == {c.pendingApprovals[id] : id \in DOMAIN c.pendingApprovals}

\* resolve(d) of the resolvers in ws: a promise takes its first resolution
\* only. Of a resumed handler the decision it received is all that is kept.
Resolve(wtrs, ws, d) ==
  [w \in WaiterIds |->
     IF w \in ws
     THEN [NoWaiter EXCEPT !.st = "resolved",
                           !.decision = IF wtrs[w].st = "waiting" THEN d ELSE wtrs[w].decision,
                           !.resolutions = wtrs[w].resolutions + 1]
     ELSE wtrs[w]]

\* abortPendingApprovals, on the client: the map is cleared.
abortPendingApprovals(c) == [c EXCEPT !.pendingApprovals = EmptyMap]

\* abortPendingApprovals, on the waiters: every stored resolver gets 'abort'.
abortPendingWaiters(c, wtrs) == Resolve(wtrs, Resolvers(c), "abort")

\* resetSessionState: pending approvals are released, the session binding and
\* the emitted-text flag are cleared.
resetSessionState(c) ==
  [abortPendingApprovals(c) EXCEPT !.sessionId = 0, !.sawAssistantTextInFlight = FALSE]

\* AbortController.abort() on the controller of turn record tr, the map of
\* pending approvals being c's at that moment: the first call raises the
\* signal, a later call does nothing.
RaiseSignal(tr, c) ==
  IF tr.controller = "aborted" THEN tr
  ELSE [tr EXCEPT !.controller = "aborted",
                  !.cancels = @ + 1,
                  !.pendingAtCancel = Cardinality(DOMAIN c.pendingApprovals)]

\* Events as the gateway's onEvent and its IIFE write them: of the payload
\* the stage of a progress event and the message of a turn_error are kept.
Progress(stage) == [event |-> "progress", data |-> stage]
Ev(kind) == [event |-> kind, data |-> ""]

\* runTurn comparing the model alone of the two configs.
MustResetSessionOnModel(r, nextConfigKey) ==
  hasSession(r.client) /\ r.sessionConfigKey.model # nextConfigKey.model

\* runTurn needs the session restarted: a session is held and the recorded
\* config key is not the requested one.
MustResetSession(r, nextConfigKey) ==
  hasSession(r.client) /\ r.sessionConfigKey # nextConfigKey

\* The client of r once runTurn has reached its agent call: the emit closure of
\* turn t registered, the session reset if it must be, and the emitted-text
\* flag cleared by startSession / continueSession.
ClientAtCall(r, t, nextConfigKey) ==
  LET c0 == [r.client EXCEPT !.onEvent = t]
      c1 == IF MustResetSession(r, nextConfigKey) THEN resetSessionState(c0) ELSE c0
  IN [c1 EXCEPT !.sawAssistantTextInFlight = FALSE]

\* The progress events runTurn emits before its agent call.
EmitsAtCall(r, t, nextConfigKey) ==
  (IF MustResetSession(r, nextConfigKey) THEN <<Progress("session_reset")>> ELSE <<>>)
  \o (IF ~hasSession(ClientAtCall(r, t, nextConfigKey))
      THEN <<Progress("start_session")>>
      ELSE <<Progress("continue_session")>>)

\* The record of an accepted runTurn call on runner object rid, whose state
\* before the call is r. A caller's signal that is already raised raises the
\* controller at once, before the session is looked at.
TurnAtCall(r, rid, t, k, nextConfigKey, sig, viaGateway) ==
  LET tr0 == [NoTurn EXCEPT !.st = "calling", !.key = k, !.runner = rid,
                             !.gateway = viaGateway, !.nextConfigKey = nextConfigKey,
                             !.signal = sig]
      tr1 == IF sig = "aborted" THEN RaiseSignal(tr0, r.client) ELSE tr0
  IN [tr1 EXCEPT !.sessionReset = MustResetSession(r, nextConfigKey),
                 !.call = IF ~hasSession(ClientAtCall(r, t, nextConfigKey))
                          THEN "startSession" ELSE "continueSession"]

\* The runner objects something still refers to: the map, a runTurn call in
\* flight, or the listener on a caller's signal that has not fired.
Referenced(rs, ts) ==
  {rs[k] : k \in Keys}
    \cup {ts[t].runner : t \in {u \in TurnIds : ts[u].st = "calling"}}
    \cup {ts[t].runner : t \in {u \in TurnIds : ts[u].st = "settled" /\ ts[u].signal = "live"}}

\* The heap with the objects nothing refers to any more collected.
Collect(h, rs, ts) ==
  [rid \in RunnerIds |-> IF rid \in Referenced(rs, ts) THEN h[rid] ELSE FreeSlot]

\* The record of a settled runTurn call: what is left of it is, while the
\* caller's signal has not fired, the listener on it with the runner object
\* it is bound to.
Settled(tr) ==
  [NoTurn EXCEPT !.st = "settled", !.signal = tr.signal,
                 !.runner = IF tr.signal = "live" THEN tr.runner ELSE 0]

\* The runner objects in use, and the slot a new RunnerState takes.
InUse == Referenced(runners, turns)
FreshRunner == CHOOSE rid \in RunnerIds \ InUse : \A o \in RunnerIds \ InUse : rid <= o

\* The runner object get() returns.
GetRunner(k, inst) == IF GetCreates(k, inst) THEN FreshRunner ELSE runners[k]

\* A call can be accepted: a record is left for it.
CanRequest == NextTurn \in TurnIds

\* get() finds room for the RunnerState it has to make.
CanGet(k, inst) == GetCreates(k, inst) => RunnerIds \ InUse # {}

\* runTurn from its entry to its first suspension, for a call that is
\* accepted: get(), busy and the controller set, the handler registered, the
\* caller's signal composed, the session reset if the config changed.
RunTurnAccepted(t, k, inst, config, sig, viaGateway) ==
  LET rid == GetRunner(k, inst)
      r == IF GetCreates(k, inst) THEN NewRunner(inst) ELSE heap[rid]
      key == sessionConfigKey(config)
  IN /\ runners' = [runners EXCEPT ![k] = rid]
     /\ turns' = [turns EXCEPT ![t] = TurnAtCall(r, rid, t, k, key, sig, viaGateway)]
     /\ heap' = Collect([heap EXCEPT ![rid] =
                           [r EXCEPT !.busy = TRUE, !.abort = t,
                                     !.client = ClientAtCall(r, t, key)]],
                        runners', turns')
     /\ waiters' = IF MustResetSession(r, key)
                   THEN abortPendingWaiters(r.client, waiters)
                   ELSE waiters

\* runTurn without its own busy check: only get() throws.
RunTurnThrowsFromGetOnly(k, inst) == GetThrows(k, inst)

\* runTurn throws chat_busy: from get(), or at its own busy check.
RunTurnThrows(k, inst) ==
  GetThrows(k, inst) \/ (~GetCreates(k, inst) /\ heap[runners[k]].busy)

\* CodexManager.runTurn called directly, with the caller's own signal or none.
RunTurn(k, inst, config, sig) ==
  IF RunTurnThrows(k, inst)
  THEN reply' = "chat_busy" /\ UNCHANGED gateway
  ELSE /\ CanRequest
       /\ CanGet(k, inst)
       /\ RunTurnAccepted(NextTurn, k, inst, config, sig, FALSE)
       /\ reply' = ""
       /\ UNCHANGED streamsByChatKey

\* The stream of POST /v1/chats/start once the handler has answered ok:
\* reset, the start event, and what runTurn emitted before its agent call.
StreamAtStart(s, r, t, config) ==
  appendAll(appendStreamEvent(resetStream(s), "start", ""),
            EmitsAtCall(r, t, sessionConfigKey(config)))

\* POST /v1/chats/start.
PostStart(k, inst, config) ==
  IF isBusy(k)
  THEN reply' = "chat_busy" /\ UNCHANGED gateway
  ELSE /\ CanRequest
       /\ CanGet(k, inst)
       /\ RunTurnAccepted(NextTurn, k, inst, config, "none", TRUE)
       /\ reply' = ""
       /\ streamsByChatKey' =
            [streamsByChatKey EXCEPT ![k] =
               StreamAtStart(@, IF GetCreates(k, inst) THEN NewRunner(inst) ELSE heap[runners[k]],
                             NextTurn, config)]

\* Session ids the backend reports, 0 when a payload carries none.
SessionIds == {1}
\* Correlation ids the backend supplies with an elicitation request; 0 when
\* it supplies none and the client mints one from approvalSeq.
BackendApprovalIds == {101}
Decisions == {"approved", "approved_for_session", "denied", "abort"}
\* What a successful call leaves to be appended before done.
UsageOutcomes == {<<>>, <<"codex_usage", "codex_rate_limits">>}

\* The sink of the emit closure a client holds: the gateway stream of the
\* turn's conversation for a turn started by POST /v1/chats/start, the
\* caller's own callback otherwise. A client without handler drops the event.
Emitted(c, es) ==
  IF c.onEvent # 0 /\ turns[c.onEvent].gateway
  THEN [streamsByChatKey EXCEPT ![turns[c.onEvent].key] = appendAll(@, es)]
  ELSE streamsByChatKey

\* The agent has room to speak: the stream of the model is not yet full.
Audible(c) ==
  c.onEvent # 0 /\ turns[c.onEvent].gateway
     => streamsByChatKey[turns[c.onEvent].key].nextId <= MaxStreamEvents

\* A codex/event notification during the agent call of turn t: identifiers
\* are harvested, then the event goes to the handler as agent_message or raw.
AgentEvent(t, sid, msg) ==
  LET rid == turns[t].runner
      c == heap[rid].client
      h == CodexEvent(c.sawAssistantTextInFlight, msg)
  IN /\ InFlight(t)
     /\ Audible(c)
     /\ heap' = [heap EXCEPT ![rid].client.sessionId = IF sid # 0 THEN sid ELSE @,
                             ![rid].client.sawAssistantTextInFlight = h.saw]
     /\ streamsByChatKey' =
          Emitted(c, [i \in 1..Len(h.emits) |-> Ev(StreamKind(h.emits[i].type))])
     /\ reply' = ""
     /\ UNCHANGED <<runners, turns, waiters>>

\* The elicitation request handler up to its suspension: the id is the
\* backend's or minted, the resolver is stored under it, approval_request is
\* emitted.
ElicitRequest(t, supplied) ==
  LET rid == turns[t].runner
      c == heap[rid].client
      w == NextWaiter
      seq == IF supplied = 0 THEN c.approvalSeq + 1 ELSE c.approvalSeq
      id == IF supplied = 0 THEN seq ELSE supplied
  IN /\ InFlight(t)
     /\ turns[t].controller = "live"
     /\ w \in WaiterIds
     /\ Audible(c)
     /\ waiters' = [waiters EXCEPT ![w] =
                      [NoWaiter EXCEPT !.st = "waiting", !.turn = t, !.id = id]]
     /\ heap' = [heap EXCEPT ![rid].client.approvalSeq = seq,
                             ![rid].client.pendingApprovals = MapSet(@, id, w)]
     /\ streamsByChatKey' = Emitted(c, <<Ev("approval_request")>>)
     /\ reply' = ""
     /\ UNCHANGED <<runners, turns>>

\* approve falling back to some pending entry whenever the id is not found.
ApproveKeyAnyPending(c, id) ==
  IF id \in DOMAIN c.pendingApprovals THEN id
  ELSE IF DOMAIN c.pendingApprovals # {}
       THEN CHOOSE x \in DOMAIN c.pendingApprovals : TRUE
       ELSE 0

\* CodexMcpClient.approve: the key it resolves, 0 when it returns false.
ApproveKey(c, id) ==
  IF id \in DOMAIN c.pendingApprovals THEN id
  ELSE IF Cardinality(DOMAIN c.pendingApprovals) = 1
       THEN CHOOSE x \in DOMAIN c.pendingApprovals : TRUE
       ELSE 0

\* CodexManager.approve answers false: no runner, or the client finds no entry.
ApproveFails(k, id) ==
  runners[k] = NoRunner \/ ApproveKey(heap[runners[k]].client, id) = 0

\* POST /v1/chats/approve -> CodexManager.approve -> CodexMcpClient.approve.
PostApprove(k, id, decision) ==
  IF ApproveFails(k, id)
  THEN reply' = "" /\ UNCHANGED gateway
  ELSE LET rid == runners[k]
           c == heap[rid].client
           key == ApproveKey(c, id)
       IN /\ waiters' = Resolve(waiters, {c.pendingApprovals[key]}, decision)
          /\ heap' = [heap EXCEPT ![rid].client.pendingApprovals = MapDelete(@, key)]
          /\ reply' = ""
          /\ UNCHANGED <<runners, turns, streamsByChatKey>>

\* CodexManager.abort with its two calls in the other order: the signal is
\* raised while the approvals are still pending.
AbortRunnerSignalFirst(r, tr, wtrs) ==
  [runner |-> [r EXCEPT !.client = abortPendingApprovals(r.client)],
   turn |-> RaiseSignal(tr, r.client),
   waiters |-> abortPendingWaiters(r.client, wtrs)]

\* CodexManager.abort on a busy runner r whose controller is that of turn
\* record tr: pending approvals are released first, then the signal is raised.
AbortRunner(r, tr, wtrs) ==
  LET c == abortPendingApprovals(r.client)
  IN [runner |-> [r EXCEPT !.client = c],
      turn |-> RaiseSignal(tr, c),
      waiters |-> abortPendingWaiters(r.client, wtrs)]

\* CodexManager.abort answers not_running: no runner, or an idle one.
AbortFails(k) == runners[k] = NoRunner \/ ~heap[runners[k]].busy

\* POST /v1/chats/abort -> CodexManager.abort.
PostAbort(k) ==
  IF AbortFails(k)
  THEN reply' = "" /\ UNCHANGED gateway
  ELSE LET rid == runners[k]
           t == heap[rid].abort
           a == AbortRunner(heap[rid], turns[t], waiters)
       IN /\ heap' = [heap EXCEPT ![rid] = a.runner]
          /\ turns' = [turns EXCEPT ![t] = a.turn]
          /\ waiters' = a.waiters
          /\ reply' = ""
          /\ UNCHANGED <<runners, streamsByChatKey>>

\* The caller's own signal of turn t fires: the listener runTurn registered
\* runs r.abort?.abort() on the runner object the turn was started on,
\* whichever call that object is running by then.
CallerAbort(t) ==
  LET rid == turns[t].runner
      cur == heap[rid].abort
      fired == [turns EXCEPT ![t].signal = "aborted",
                             ![t].runner = IF turns[t].st = "settled" THEN 0 ELSE @]
  IN /\ turns[t].st \in {"calling", "settled"}
     /\ turns[t].signal = "live"
     /\ turns' = IF cur # 0
                 THEN [fired EXCEPT ![cur] = RaiseSignal(@, heap[rid].client)]
                 ELSE fired
     /\ heap' = Collect(heap, runners, turns')
     /\ reply' = ""
     /\ UNCHANGED <<runners, waiters, streamsByChatKey>>

\* CodexManager.reset: the map entry is dropped.
reset(k) ==
  /\ runners' = [runners EXCEPT ![k] = NoRunner]
  /\ heap' = Collect(heap, runners', turns)
  /\ reply' = ""
  /\ UNCHANGED <<turns, waiters>>

\* POST /v1/chats/reset.
PostReset(k) ==
  /\ reset(k)
  /\ streamsByChatKey' = [streamsByChatKey EXCEPT ![k] = [resetStream(@) EXCEPT !.status = "idle"]]

\* The agent of turn t is waiting for the answer to an elicitation request.
Blocked(t) == \E w \in WaiterIds : waiters[w].st = "waiting" /\ waiters[w].turn = t

\* The runner of a turn whose agent call has settled: what the call stored,
\* then runTurn's finally.
RunnerAtSettle(r, tr, outcome, sid) ==
  [r EXCEPT !.client.sessionId = IF outcome = "success" /\ sid # 0 THEN sid ELSE @,
            !.sessionConfigKey = IF outcome = "success" /\ tr.call = "startSession"
                                 THEN tr.nextConfigKey ELSE @,
            !.client.onEvent = 0,
            !.busy = FALSE,
            !.abort = 0]

\* The IIFE with a catch that swallows a cancellation: nothing is appended.
TerminalEventsUnlessCancelled(t, outcome, usage) ==
  IF outcome = "success"
  THEN [i \in 1..Len(usage) |-> Ev(usage[i])] \o <<Ev("done")>>
  ELSE IF outcome = "cancelled" THEN <<>>
  ELSE <<[event |-> "turn_error", data |-> outcome]>>

\* What the IIFE of POST /v1/chats/start appends once runTurn has settled.
TerminalEvents(t, outcome, usage) ==
  IF outcome = "success"
  THEN [i \in 1..Len(usage) |-> Ev(usage[i])] \o <<Ev("done")>>
  ELSE <<[event |-> "turn_error", data |-> outcome]>>

\* The agent call of turn t returns or fails and runTurn settles with it.
\* A call whose signal is raised is rejected; a blocked agent cannot return.
Settle(t, outcome, sid, usage) ==
  LET rid == turns[t].runner IN
  /\ InFlight(t)
  /\ outcome = "cancelled" <=> turns[t].controller = "aborted"
  /\ outcome = "success" => ~Blocked(t)
  /\ turns' = [turns EXCEPT ![t] = Settled(@)]
  /\ heap' = Collect([heap EXCEPT ![rid] = RunnerAtSettle(@, turns[t], outcome, sid)],
                     runners, turns')
  /\ streamsByChatKey' =
       IF turns[t].gateway
       THEN [streamsByChatKey EXCEPT ![turns[t].key] = appendAll(@, TerminalEvents(t, outcome, usage))]
       ELSE streamsByChatKey
  /\ reply' = ""
  /\ UNCHANGED <<runners, waiters>>

\* A stream marked running whose runner is not busy gets a synthesized done.
Reconciled(k) ==
  IF streamsByChatKey[k].status = "running" /\ ~isBusy(k)
  THEN [streamsByChatKey EXCEPT ![k] = appendStreamEvent(@, "done", "reconciled")]
  ELSE streamsByChatKey

\* GET /v1/chats/runtime.
GetRuntime(k) ==
  /\ streamsByChatKey' = Reconciled(k)
  /\ reply' = ""
  /\ UNCHANGED <<runners, heap, turns, waiters>>

\* The 30 s sweep: a stream that is not running and past the idle TTL is
\* deleted (ensureStream makes it anew on the next access), a running one is
\* reconciled.
Sweep(k, expired) ==
  /\ streamsByChatKey' =
       IF streamsByChatKey[k].status # "running" /\ expired
       THEN [streamsByChatKey EXCEPT ![k] = NewStream]
       ELSE Reconciled(k)
  /\ reply' = ""
  /\ UNCHANGED <<runners, heap, turns, waiters>>

\* DedupSpec before its Init has chosen a backend and a script.
NoDedup ==
  [backend |-> "", saw |-> FALSE, text |-> <<>>,
   delta |-> <<>>, content |-> <<>>, full |-> 0, item |-> 0,
   emitted |-> <<>>, raws |-> 0]

\* The web server before any turn: no known cursor (0), no pump (the pump of
\* a turn is the runTurn call of SessiondClient that started it), the
\* conversation not in localTurnPumps, no sync under way.
NoPump == [pc |-> "none", after |-> 0]
NoBridge ==
  [known |-> 0,
   pumps |-> [t \in TurnIds |-> NoPump],
   local |-> FALSE,
   sync |-> [pc |-> "idle", after |-> 0]]

\* The four before their Init.
NoStore == [seq |-> 0]
NoRequest == [pc |-> "none", sent |-> 0]
NoIdent == [sessionId |-> 0]
NoCall == [fn |-> "", done |-> FALSE]
NoProc == [pc |-> "none"]

\* BufSpec before its Init has chosen a buffer.
NoBuf == [kind |-> "", stream |-> NewStream, appended |-> 0, filled |-> 0]

\* StoreSpec, RequestSpec, IdentSpec, RateSpec and ResponseSpec before their
\* Init.
RestInit ==
  /\ store = NoStore
  /\ request = NoRequest
  /\ ident = NoIdent
  /\ proc = NoProc
  /\ call = NoCall

Init ==
  /\ runners = [k \in Keys |-> NoRunner]
  /\ heap = [r \in RunnerIds |-> FreeSlot]
  /\ turns = [t \in TurnIds |-> NoTurn]
  /\ waiters = [w \in WaiterIds |-> NoWaiter]
  /\ streamsByChatKey = [k \in Keys |-> NewStream]
  /\ reply = ""
  /\ dedup = NoDedup
  /\ buf = NoBuf
  /\ bridge = NoBridge
  /\ RestInit

\* The inputs of the model.
ApprovalIds == BackendApprovalIds \cup (1..MaxApprovals)
GatewayConfigs == {BaseConfig, [BaseConfig EXCEPT !.model = Undefined]}
ApproveDecisions == {"approved"}
ManagerConfigs == {BaseConfig}

Start == (\E k \in Keys, inst \in Instances, config \in GatewayConfigs : PostStart(k, inst, config)) /\ UNCHANGED aux
Event ==
  /\ \E t \in TurnIds, sid \in SessionIds \cup {0} :
       AgentEvent(t, sid, [type |-> "task_started", text |-> <<>>])
  /\ UNCHANGED aux
Elicit == (\E t \in TurnIds, supplied \in BackendApprovalIds \cup {0} : ElicitRequest(t, supplied)) /\ UNCHANGED aux
Approve == (\E k \in Keys, id \in ApprovalIds, d \in ApproveDecisions : PostApprove(k, id, d)) /\ UNCHANGED aux
Abort == (\E k \in Keys : PostAbort(k)) /\ UNCHANGED aux
Reset == (\E k \in Keys : PostReset(k)) /\ UNCHANGED aux
Settles ==
  /\ \E t \in TurnIds, outcome \in {"success", "error", "cancelled"},
        sid \in SessionIds \cup {0}, usage \in UsageOutcomes :
       Settle(t, outcome, sid, usage)
  /\ UNCHANGED aux
Runtime == (\E k \in Keys : GetRuntime(k)) /\ UNCHANGED aux
Sweeps == (\E k \in Keys, expired \in BOOLEAN : Sweep(k, expired)) /\ UNCHANGED aux

\* The gateway process.
Next ==
  \/ Start
  \/ Event
  \/ Elicit
  \/ Approve
  \/ Abort
  \/ Reset
  \/ Settles
  \/ Runtime
  \/ Sweeps

Spec == Init /\ [][Next]_vars

Call ==
  /\ \E k \in Keys, inst \in Instances, config \in ManagerConfigs, sig \in {"none", "live", "aborted"} :
       RunTurn(k, inst, config, sig)
  /\ UNCHANGED aux
ManagerReset == (\E k \in Keys : reset(k) /\ UNCHANGED streamsByChatKey) /\ UNCHANGED aux
Signal == (\E t \in TurnIds : CallerAbort(t)) /\ UNCHANGED aux

\* CodexManager under its own interface, its callers being anyone.
ManagerNext ==
  \/ Call
  \/ Event
  \/ Elicit
  \/ Approve
  \/ Abort
  \/ ManagerReset
  \/ Signal
  \/ Settles

ManagerSpec == Init /\ [][ManagerNext]_vars

\* The gateway process together with direct callers of CodexManager.runTurn:
\* the two ways a turn is started.
StartNext ==
  \/ Start
  \/ Call
  \/ Event
  \/ Abort
  \/ Reset
  \/ Settles

StartSpec == Init /\ [][StartNext]_vars

\* --------------------------------------------------------------- ConfigSpec
\* Turns of one conversation on one instance, one after the other, each
\* under any of the configs.
ConfigStart ==
  /\ \E k \in Keys, config \in Configs : PostStart(k, "default", config)
  /\ UNCHANGED aux

ConfigNext ==
  \/ ConfigStart
  \/ Event
  \/ Settles

ConfigSpec == Init /\ [][ConfigNext]_vars

\* -------------------------------------------------------------- ApproveSpec
\* One conversation whose turns raise elicitation requests, answered through
\* POST /v1/chats/approve with any id and any decision, or aborted.
ApproveStart ==
  /\ \E k \in Keys : PostStart(k, "default", BaseConfig)
  /\ UNCHANGED aux

ApproveAny ==
  /\ \E k \in Keys, id \in ApprovalIds, d \in Decisions : PostApprove(k, id, d)
  /\ UNCHANGED aux

ApproveNext ==
  \/ ApproveStart
  \/ Elicit
  \/ ApproveAny
  \/ Abort
  \/ Reset
  \/ Settles

ApproveSpec == Init /\ [][ApproveNext]_vars

\* --------------------------------------------------------------- BridgeSpec
\* The one conversation, instance and config of the web server's turns.
BridgeKey == CHOOSE k \in Keys : TRUE

\* The greatest id of es, 0 when es is empty.
LastId(es) == IF es = <<>> THEN 0 ELSE es[Len(es)].id

\* markKnownCursor for each event of es: the cursor only moves up.
MarkKnown(known, es) == IF LastId(es) > known THEN LastId(es) ELSE known

\* startChatTurn when the gateway is not busy: the known cursor is reset, the
\* conversation enters localTurnPumps and SessiondClient.runTurn posts
\* /v1/chats/start; its cursor is 0 and it is about to list the events.
PumpStart ==
  /\ ~isBusy(BridgeKey)
  /\ PostStart(BridgeKey, "default", BaseConfig)
  /\ bridge' = [bridge EXCEPT !.known = 0, !.local = TRUE,
                              !.pumps[NextTurn] = [pc |-> "list", after |-> 0]]
  /\ UNCHANGED <<dedup, buf, rest>>

\* The poll loop of the pump of turn t fetches the events after its cursor:
\* the cursor and the known cursor move to the last of them.
PollList(t) ==
  LET es == listStreamEventsSince(streamsByChatKey[BridgeKey], bridge.pumps[t].after) IN
  /\ bridge.pumps[t].pc = "list"
  /\ bridge' = [bridge EXCEPT !.pumps[t].after = IF es = <<>> THEN @ ELSE LastId(es),
                              !.pumps[t].pc = "runtime",
                              !.known = MarkKnown(@, es)]
  /\ UNCHANGED <<gateway, reply, dedup, buf, rest>>

\* The rest of a round of the poll loop, on the runtime rt the gateway
\* answered: a cursor past lastEventId is reset, and the known cursor with
\* it; done returns, error throws, anything else sleeps and goes round.
AfterRuntime(b, t, rt) ==
  LET stale == b.pumps[t].after > rt.lastEventId
      pc == IF rt.status = "done" THEN "returned"
            ELSE IF rt.status = "error" THEN "thrown"
            ELSE "list"
  IN [b EXCEPT !.pumps[t].after = IF stale THEN 0 ELSE @,
               !.known = IF stale THEN 0 ELSE @,
               !.pumps[t].pc = pc,
               !.local = IF pc = "list" THEN @ ELSE FALSE]

\* What GET /v1/chats/runtime answers from stream s.
RuntimeOf(s) == [status |-> s.status, lastEventId |-> lastEventId(s)]

\* The poll loop of the pump of turn t asks for the runtime.
PollRuntime(t) ==
  /\ bridge.pumps[t].pc = "runtime"
  /\ GetRuntime(BridgeKey)
  /\ bridge' = AfterRuntime(bridge, t, RuntimeOf(streamsByChatKey'[BridgeKey]))
  /\ UNCHANGED <<dedup, buf, rest>>

\* syncStreamFromSessiond up to its listEventsSince, run when the
\* conversation is not in localTurnPumps: a known cursor past lastEventId is
\* reset, and the events after the cursor are asked for.
SyncRuntime ==
  LET rt == RuntimeOf(streamsByChatKey'[BridgeKey])
      stale == bridge.known > rt.lastEventId
  IN /\ ~bridge.local
     /\ bridge.sync.pc = "idle"
     /\ GetRuntime(BridgeKey)
     /\ bridge' = [bridge EXCEPT !.known = IF stale THEN 0 ELSE @,
                                 !.sync = [pc |-> "list", after |-> IF stale THEN 0 ELSE bridge.known]]
     /\ UNCHANGED <<dedup, buf, rest>>

\* syncStreamFromSessiond from the answer to its listEventsSince: the known
\* cursor is marked for each event.
SyncList ==
  LET es == listStreamEventsSince(streamsByChatKey[BridgeKey], bridge.sync.after) IN
  /\ bridge.sync.pc = "list"
  /\ bridge' = [bridge EXCEPT !.known = MarkKnown(@, es),
                              !.sync = [pc |-> "idle", after |-> 0]]
  /\ UNCHANGED <<gateway, reply, dedup, buf, rest>>

\* POST /api/chats/:chatId/reset of the web server: the gateway's reset.
WebReset ==
  /\ PostReset(BridgeKey)
  /\ UNCHANGED aux

Polls == \E t \in TurnIds : PollList(t)
Runtimes == \E t \in TurnIds : PollRuntime(t)

BridgeNext ==
  \/ PumpStart
  \/ Polls
  \/ Runtimes
  \/ SyncRuntime
  \/ SyncList
  \/ WebReset
  \/ Event
  \/ Settles

BridgeSpec == Init /\ [][BridgeNext]_vars

\* ---------------------------------------------------------------- DedupSpec
\* The assistant text of the turn, and the ways the backend cuts it into
\* deltas (none: it streams no deltas).
Text == <<"a", "b">>
Chunkings == {<<>>, <<Text>>, << <<"a">>, <<"b">> >>}

\* One client at the start of an agent call (startSession and continueSession
\* clear the flag) with what its backend is going to send: the deltas, for
\* codex their duplicates on the content channel, a full message or not, for
\* codex a raw assistant item or not.
DedupStarts ==
  {[NoDedup EXCEPT !.backend = "codex", !.text = Text, !.delta = ch,
                   !.content = co, !.full = f, !.item = i] :
     ch \in Chunkings, co \in Chunkings, f \in 0..1, i \in 0..1}
  \cup
  {[NoDedup EXCEPT !.backend = "claude", !.text = Text, !.delta = ch, !.full = f] :
     ch \in Chunkings, f \in 0..1}

\* The texts of the agent_message events of es, concatenated.
RECURSIVE MessageText(_)
MessageText(es) ==
  IF es = <<>> THEN <<>>
  ELSE (IF Head(es).type = "agent_message" THEN Head(es).message ELSE <<>>)
       \o MessageText(Tail(es))

\* The client handles one event of its backend.
Handle(d, msg) ==
  LET h == IF d.backend = "codex" THEN CodexEvent(d.saw, msg) ELSE ClaudeJsonLine(d.saw, msg)
  IN [d EXCEPT !.saw = h.saw,
               !.emitted = @ \o MessageText(h.emits),
               !.raws = @ + Cardinality({i \in 1..Len(h.emits) : h.emits[i].type = "raw"})]

DeliverDelta ==
  /\ dedup.delta # <<>>
  /\ dedup' = Handle([dedup EXCEPT !.delta = Tail(@)],
                     [type |-> IF dedup.backend = "codex" THEN "agent_message_delta" ELSE "stream_event",
                      text |-> Head(dedup.delta)])
  /\ UNCHANGED <<gateway, reply, buf, bridge, rest>>

DeliverContentDelta ==
  /\ dedup.content # <<>>
  /\ dedup' = Handle([dedup EXCEPT !.content = Tail(@)],
                     [type |-> "agent_message_content_delta", text |-> Head(dedup.content)])
  /\ UNCHANGED <<gateway, reply, buf, bridge, rest>>

DeliverFullMessage ==
  /\ dedup.full > 0
  /\ dedup' = Handle([dedup EXCEPT !.full = @ - 1],
                     [type |-> IF dedup.backend = "codex" THEN "agent_message" ELSE "assistant",
                      text |-> dedup.text])
  /\ UNCHANGED <<gateway, reply, buf, bridge, rest>>

DeliverRawItem ==
  /\ dedup.item > 0
  /\ dedup' = Handle([dedup EXCEPT !.item = @ - 1],
                     [type |-> "raw_response_item", text |-> dedup.text])
  /\ UNCHANGED <<gateway, reply, buf, bridge, rest>>

DedupInit ==
  /\ runners = [k \in Keys |-> NoRunner]
  /\ heap = [r \in RunnerIds |-> FreeSlot]
  /\ turns = [t \in TurnIds |-> NoTurn]
  /\ waiters = [w \in WaiterIds |-> NoWaiter]
  /\ streamsByChatKey = [k \in Keys |-> NewStream]
  /\ reply = ""
  /\ dedup \in DedupStarts
  /\ buf = NoBuf
  /\ bridge = NoBridge
  /\ RestInit

DedupNext ==
  \/ DeliverDelta
  \/ DeliverContentDelta
  \/ DeliverFullMessage
  \/ DeliverRawItem

DedupSpec == DedupInit /\ [][DedupNext]_vars

\* ------------------------------------------------------------------ BufSpec
\* const maxEvents of the buffer's appendStreamEvent.
Capacity(kind) == IF kind = "store" THEN StoreMaxEvents ELSE GatewayMaxEvents

\* appendStreamEvent on the buffer: the caller's payload is the number of the
\* append since the reset.
BufAppend(event) ==
  /\ buf.appended < buf.filled + MaxAppends
  /\ buf' = [buf EXCEPT !.stream = AppendStreamEvent(@, event, buf.appended + 1, Capacity(buf.kind)),
                        !.appended = @ + 1]
  /\ UNCHANGED <<gateway, reply, dedup, bridge, rest>>

\* resetStream on the buffer (MemoryStore's is the gateway's).
BufReset ==
  /\ buf' = [buf EXCEPT !.stream = resetStream(@), !.appended = 0, !.filled = 0]
  /\ UNCHANGED <<gateway, reply, dedup, bridge, rest>>

RECURSIVE AppendDeltas(_, _, _, _)
\* s after appendStreamEvent of a delta for each payload from..to, in order.
\* The range is halved, and the first half is evaluated (its nextId read)
\* before the second is entered, to keep the evaluation shallow.
AppendDeltas(s, from, to, maxEvents) ==
  IF from > to THEN s
  ELSE IF from = to THEN AppendStreamEvent(s, "delta", from, maxEvents)
  ELSE LET mid == (from + to) \div 2
           half == AppendDeltas(s, from, mid, maxEvents)
       IN IF half.nextId > mid
          THEN AppendDeltas(half, mid + 1, to, maxEvents)
          ELSE half

\* The buffer n deltas after its creation.
Filled(kind, n) ==
  [NoBuf EXCEPT !.kind = kind,
                !.stream = AppendDeltas(NewStream, 1, n, Capacity(kind)),
                !.appended = n, !.filled = n]

BufInit ==
  /\ runners = [k \in Keys |-> NoRunner]
  /\ heap = [r \in RunnerIds |-> FreeSlot]
  /\ turns = [t \in TurnIds |-> NoTurn]
  /\ waiters = [w \in WaiterIds |-> NoWaiter]
  /\ streamsByChatKey = [k \in Keys |-> NewStream]
  /\ reply = ""
  /\ dedup = NoDedup
  /\ buf \in {[NoBuf EXCEPT !.kind = kind] : kind \in {"gateway", "store"}}
           \cup {Filled(kind, Capacity(kind) - BufMargin) : kind \in {"gateway", "store"}}
  /\ bridge = NoBridge
  /\ RestInit

BufAppends == \E event \in {"delta", "done", "turn_error"} : BufAppend(event)

BufNext ==
  \/ BufAppends
  \/ BufReset

BufSpec == BufInit /\ [][BufNext]_vars

\* ---------------------------------------------------------------- StoreSpec
\* The web server's MemoryStore stream of one conversation, with the
\* responses of GET /api/chats/:chatId/stream subscribed to it.
Connections == 1..MaxConnections

\* Header and query values as the strings they arrive as; "" is an absent
\* header or parameter.
HeaderValues == {"", "x", "1"}
QueryValues == {"", "x", "0", "2"}

\* Number(text) of a non-empty string: a finite number, or NaN.
NotFinite == [finite |-> FALSE, n |-> 0]
ToNumber(text) ==
  CASE text = "0" -> [finite |-> TRUE, n |-> 0]
    [] text = "1" -> [finite |-> TRUE, n |-> 1]
    [] text = "2" -> [finite |-> TRUE, n |-> 2]
    [] OTHER -> NotFinite

\* The cursor of the stream endpoint with the query parameter preferred.
StreamCursorQueryFirst(header, query) ==
  LET afterParam == IF query # "" THEN ToNumber(query) ELSE NotFinite
      afterHeader == IF header # "" THEN ToNumber(header) ELSE NotFinite
  IN IF afterParam.finite THEN afterParam.n
     ELSE IF afterHeader.finite THEN afterHeader.n
     ELSE 0

\* The cursor of the stream endpoint: Number.isFinite(afterHeader) ?
\* afterHeader : Number.isFinite(afterParam) ? afterParam : 0, each undefined
\* when its string is falsy.
StreamCursor(header, query) ==
  LET afterParam == IF query # "" THEN ToNumber(query) ELSE NotFinite
      afterHeader == IF header # "" THEN ToNumber(header) ELSE NotFinite
  IN IF afterHeader.finite THEN afterHeader.n
     ELSE IF afterParam.finite THEN afterParam.n
     ELSE 0

\* A response of the stream endpoint: pc is none (no request yet), awaiting
\* (reconcileRuntimeStatus is at its isBusy call), live (subscribed), ended
\* (res.end()) or closed (the client has gone). written are the events
\* written to it, the first backlog of them from the backlog.
NoConn ==
  [pc |-> "none", after |-> 0, poll |-> FALSE, written |-> <<>>, backlog |-> 0]

\* chat: the chat exists. stream, listeners: its ChatStream. local: the
\* conversation is in localTurnPumps; pumps: the pumps of startChatTurn still
\* running. seq: the events appended over the run, each event carrying its
\* number as data. assigned: the ids appendStreamEvent has assigned.
StoreStarts ==
  [chat |-> TRUE, stream |-> NewStream, listeners |-> {}, local |-> FALSE, pumps |-> 0,
   seq |-> 0, assigned |-> <<>>, conns |-> [c \in Connections |-> NoConn]]

IsTerminal(event) == event \in {"done", "turn_error", "error"}

\* unsub() of connection c.
Unsubscribe(st, c) == [st EXCEPT !.listeners = @ \ {c}]

\* The listener of connection c on event e: the event is written, and a
\* terminal one unsubscribes and ends the response.
Listener(st, c, e) ==
  LET w == [st EXCEPT !.conns[c].written = Append(@, e)]
  IN IF IsTerminal(e.event)
     THEN [Unsubscribe(w, c) EXCEPT !.conns[c].pc = "ended"]
     ELSE w

RECURSIVE Notify(_, _, _)
\* for (const fn of s.listeners) fn(e), over the listeners cs still to call.
Notify(st, cs, e) ==
  IF cs = {} THEN st
  ELSE LET c == CHOOSE x \in cs : TRUE
       IN Notify(Listener(st, c, e), cs \ {c}, e)

\* MemoryStore.appendStreamEvent: the gateway's append with capacity 2000,
\* then every listener is called with the event.
StoreAppendEvent(st, event) ==
  LET e == [id |-> st.stream.nextId, event |-> event, data |-> st.seq + 1]
      s1 == AppendStreamEvent(st.stream, event, st.seq + 1, StoreMaxEvents)
  IN Notify([st EXCEPT !.stream = s1, !.seq = @ + 1, !.assigned = Append(@, e.id)],
            st.listeners, e)

CanAppend == store.seq < MaxStoreAppends

\* startChatTurn on the store: resetStream (listeners kept), the start event,
\* and the pump enters localTurnPumps. The gateway not being busy is the
\* environment's.
StoreStart ==
  /\ store.chat
  /\ CanAppend
  /\ store' = [StoreAppendEvent([store EXCEPT !.stream = resetStream(@)], "start")
                 EXCEPT !.local = TRUE, !.pumps = @ + 1]
  /\ UNCHANGED <<base, proc, request, ident, call>>

\* The pump of startChatTurn appends an event; with a terminal one it ends
\* and takes the conversation out of localTurnPumps.
PumpAppend(event) ==
  /\ store.pumps > 0
  /\ CanAppend
  /\ store' = IF IsTerminal(event)
              THEN [StoreAppendEvent(store, event) EXCEPT !.local = FALSE, !.pumps = @ - 1]
              ELSE StoreAppendEvent(store, event)
  /\ UNCHANGED <<base, proc, request, ident, call>>

\* syncStreamFromSessiond, run by reconcileRuntimeStatus when the
\* conversation has no local pump, appends an event of the gateway.
SyncAppend(event) ==
  /\ ~store.local
  /\ CanAppend
  /\ store' = StoreAppendEvent(store, event)
  /\ UNCHANGED <<base, proc, request, ident, call>>

\* syncStreamFromSessiond rebuilds from scratch: resetStream on a store
\* stream without events.
SyncReset ==
  /\ ~store.local
  /\ lastEventId(store.stream) = 0
  /\ store.stream.status # "running"
  /\ store' = [store EXCEPT !.stream = resetStream(@)]
  /\ UNCHANGED <<base, proc, request, ident, call>>

\* The stream endpoint from the runtime rt that reconcileRuntimeStatus
\* returned: the backlog after the cursor is written; the response ends
\* unless rt is running, else it subscribes, with the poll timer when the
\* conversation has no local pump.
Replay(st, c, rt) ==
  LET es == listStreamEventsSince(st.stream, st.conns[c].after)
      w == [st EXCEPT !.conns[c].written = es, !.conns[c].backlog = Len(es)]
  IN IF rt # "running"
     THEN [w EXCEPT !.conns[c].pc = "ended"]
     ELSE [w EXCEPT !.conns[c].pc = "live",
                    !.conns[c].poll = ~st.local,
                    !.listeners = @ \cup {c}]

\* GET /api/chats/:chatId/stream up to the first suspension of
\* reconcileRuntimeStatus that lets other requests in: its isBusy call, made
\* when there is no local pump and the store's stream is running.
Connect(c, header, query) ==
  LET st == [store EXCEPT !.conns[c].after = StreamCursor(header, query)] IN
  /\ store.chat
  /\ store.conns[c].pc = "none"
  /\ store' = IF ~store.local /\ store.stream.status = "running"
              THEN [st EXCEPT !.conns[c].pc = "awaiting"]
              ELSE Replay(st, c, store.stream.status)
  /\ UNCHANGED <<base, proc, request, ident, call>>

\* isBusy has answered: when the gateway is not busy a done is appended and
\* the runtime read again, else the runtime read before the call is returned.
ConnectResume(c, busy) ==
  /\ store.conns[c].pc = "awaiting"
  /\ ~busy => CanAppend
  /\ store' = IF busy
              THEN Replay(store, c, "running")
              ELSE LET st == StoreAppendEvent(store, "done")
                   IN Replay(st, c, st.stream.status)
  /\ UNCHANGED <<base, proc, request, ident, call>>

\* A tick of the poll timer of a live response: reconcileRuntimeStatus, and
\* the response ends when the status it returns is not running.
Poll(c, busy) ==
  LET reconciled == ~store.local /\ store.stream.status = "running" /\ ~busy
      st == IF reconciled THEN StoreAppendEvent(store, "done") ELSE store
  IN /\ store.conns[c].pc = "live"
     /\ store.conns[c].poll
     /\ reconciled => CanAppend
     /\ store' = IF st.stream.status # "running"
                 THEN [Unsubscribe(st, c) EXCEPT !.conns[c].pc = "ended"]
                 ELSE st
     /\ UNCHANGED <<base, proc, request, ident, call>>

\* The client closes a live response.
Close(c) ==
  /\ store.conns[c].pc = "live"
  /\ store' = [Unsubscribe(store, c) EXCEPT !.conns[c].pc = "closed"]
  /\ UNCHANGED <<base, proc, request, ident, call>>

\* MemoryStore.deleteChat: the chat goes, and its ChatStream with its
\* listeners; ensureStream makes a new one on the next access.
DeleteChat ==
  /\ store.chat
  /\ store' = [store EXCEPT !.chat = FALSE, !.stream = NewStream, !.listeners = {},
                            !.assigned = <<>>]
  /\ UNCHANGED <<base, proc, request, ident, call>>

StreamEvents == {"delta", "done", "turn_error"}

StoreInit ==
  /\ runners = [k \in Keys |-> NoRunner]
  /\ heap = [r \in RunnerIds |-> FreeSlot]
  /\ turns = [t \in TurnIds |-> NoTurn]
  /\ waiters = [w \in WaiterIds |-> NoWaiter]
  /\ streamsByChatKey = [k \in Keys |-> NewStream]
  /\ reply = ""
  /\ dedup = NoDedup
  /\ buf = NoBuf
  /\ bridge = NoBridge
  /\ store = StoreStarts
  /\ request = NoRequest
  /\ ident = NoIdent
  /\ proc = NoProc
  /\ call = NoCall

PumpAppends == \E event \in StreamEvents : PumpAppend(event)
SyncAppends == \E event \in StreamEvents : SyncAppend(event)
Connects == \E c \in Connections, header \in HeaderValues, query \in QueryValues : Connect(c, header, query)
ConnectResumes == \E c \in Connections, busy \in BOOLEAN : ConnectResume(c, busy)
PollTick(c) == \E busy \in BOOLEAN : Poll(c, busy)
Polling == \E c \in Connections : PollTick(c)
Closes == \E c \in Connections : Close(c)

StoreNext ==
  \/ StoreStart
  \/ PumpAppends
  \/ SyncAppends
  \/ SyncReset
  \/ Connects
  \/ ConnectResumes
  \/ Polling
  \/ Closes
  \/ DeleteChat

\* The poll timer of a live response keeps ticking.
StoreSpec == StoreInit /\ [][StoreNext]_vars /\ \A c \in Connections : WF_vars(PollTick(c))

\* ----------------------------------------------------------------- RateSpec
\* JavaScript values of a rate-limit window's fields: undefined (the field is
\* absent), null, a finite number, a string.
JsUndefined == [t |-> "undefined", n |-> 0, s |-> ""]
JsNull == [t |-> "null", n |-> 0, s |-> ""]
JsNumber(n) == [t |-> "number", n |-> n, s |-> ""]
JsString(s) == [t |-> "string", n |-> 0, s |-> s]

\* number | null, as normalizeNumeric returns it.
NoNumber == [isNull |-> TRUE, n |-> 0]
SomeNumber(n) == [isNull |-> FALSE, n |-> n]

RECURSIVE Coalesce(_)
\* a ?? b ?? ... : the first value that is neither undefined nor null, else
\* the last one.
Coalesce(vs) ==
  IF Len(vs) = 1 \/ Head(vs).t \notin {"undefined", "null"} THEN Head(vs) ELSE Coalesce(Tail(vs))

\* Number(text.trim()) of the strings of the model; NaN is NoNumber.
TrimmedNumber(text) ==
  CASE text = "" -> SomeNumber(0)
    [] text = " 40 " -> SomeNumber(40)
    [] text = "60" -> SomeNumber(60)
    [] OTHER -> NoNumber

\* normalizeNumeric: a finite number, or a string that parses to one.
normalizeNumeric(value) ==
  CASE value.t = "number" -> SomeNumber(value.n)
    [] value.t = "string" -> TrimmedNumber(value.s)
    [] OTHER -> NoNumber

Max(a, b) == IF a > b THEN a ELSE b
Min(a, b) == IF a < b THEN a ELSE b

\* (used / limit) * 100 for limit > 0. The windows of the model have used and
\* limit for which the quotient is exact in floating point.
Percent(used, limit) == (used * 100) \div limit

NullWindow == [isNull |-> TRUE, used_percent |-> 0]

\* normalizeRateLimitWindow with the used/limit percentage left unclamped.
normalizeRateLimitWindowUnclamped(raw) ==
  LET explicit == normalizeNumeric(Coalesce(<<raw.used_percent, raw.usedPercent>>))
      remaining == normalizeNumeric(raw.remaining_percent)
      used == normalizeNumeric(raw.used)
      limit == normalizeNumeric(raw.limit)
  IN IF ~raw.isRecord THEN NullWindow
     ELSE IF ~explicit.isNull THEN [isNull |-> FALSE, used_percent |-> explicit.n]
     ELSE IF ~remaining.isNull THEN [isNull |-> FALSE, used_percent |-> 100 - remaining.n]
     ELSE IF ~used.isNull /\ ~limit.isNull /\ limit.n > 0
          THEN [isNull |-> FALSE, used_percent |-> Percent(used.n, limit.n)]
     ELSE NullWindow

\* normalizeRateLimitWindow, on a window that has of the alias fields
\* used_percent, usedPercent, remaining_percent, used and limit only, and no
\* window or reset field: the result is null or {used_percent}.
normalizeRateLimitWindow(raw) ==
  LET explicit == normalizeNumeric(Coalesce(<<raw.used_percent, raw.usedPercent>>))
      remaining == normalizeNumeric(raw.remaining_percent)
      used == normalizeNumeric(raw.used)
      limit == normalizeNumeric(raw.limit)
  IN IF ~raw.isRecord THEN NullWindow
     ELSE IF ~explicit.isNull THEN [isNull |-> FALSE, used_percent |-> explicit.n]
     ELSE IF ~remaining.isNull THEN [isNull |-> FALSE, used_percent |-> 100 - remaining.n]
     ELSE IF ~used.isNull /\ ~limit.isNull /\ limit.n > 0
          THEN [isNull |-> FALSE, used_percent |-> Max(0, Min(100, Percent(used.n, limit.n)))]
     ELSE NullWindow

\* The windows of the model.
RawWindows ==
  [isRecord : BOOLEAN,
   used_percent : {JsUndefined, JsNull, JsNumber(40), JsString("abc")},
   usedPercent : {JsUndefined, JsNumber(150)},
   remaining_percent : {JsUndefined, JsNumber(60), JsNumber(160), JsString("60"), JsString("")},
   used : {JsUndefined, JsNumber(40), JsNumber(150), JsNumber(-5), JsString(" 40 ")},
   limit : {JsUndefined, JsNumber(100), JsNumber(0), JsNumber(-100)}]

RateInit ==
  /\ runners = [k \in Keys |-> NoRunner]
  /\ heap = [r \in RunnerIds |-> FreeSlot]
  /\ turns = [t \in TurnIds |-> NoTurn]
  /\ waiters = [w \in WaiterIds |-> NoWaiter]
  /\ streamsByChatKey = [k \in Keys |-> NewStream]
  /\ reply = ""
  /\ dedup = NoDedup
  /\ buf = NoBuf
  /\ bridge = NoBridge
  /\ store = NoStore
  /\ request = NoRequest
  /\ ident = NoIdent
  /\ proc = NoProc
  /\ call \in [fn : {"normalizeRateLimitWindow"}, arg : RawWindows, done : {FALSE}, result : {NullWindow}]

NormalizeWindow ==
  /\ call.fn = "normalizeRateLimitWindow"
  /\ ~call.done
  /\ call' = [call EXCEPT !.done = TRUE, !.result = normalizeRateLimitWindow(call.arg)]
  /\ UNCHANGED <<base, proc, store, request, ident>>

RateNext == NormalizeWindow

RateSpec == RateInit /\ [][RateNext]_vars

\* -------------------------------------------------------------- RequestSpec
\* One SessiondClient.requestJson call and the ensureStarted it awaits.
\*   pc        fetch (a fetch is under way), ensure (the first healthCheck of
\*             ensureStarted), waiting (its loop after spawnSessiond),
\*             returned, thrown
\*   sent      the fetches made for the call
\*   healthy   a healthCheck of this call's ensureStarted has answered true
\*   checks    the healthChecks of the loop that have answered false
\*   result    what the call returned or threw
FetchOutcomes == {"ok", "http_404", "http_409", "http_500", "network", "timeout", "bad_json"}

RequestStarts ==
  [pc : {"fetch"}, allowNotFound : BOOLEAN, allowConflict : BOOLEAN, autoStart : BOOLEAN,
   retried : {FALSE}, sent : {0}, healthy : {FALSE}, spawned : {FALSE}, checks : {0},
   result : {""}]

\* The fetch settles with a body requestJson returns: a 2xx, or an allowed
\* 404 or 409.
Returns(rq, outcome) ==
  \/ outcome = "ok"
  \/ outcome = "http_404" /\ rq.allowNotFound
  \/ outcome = "http_409" /\ rq.allowConflict

\* The catch clause retrying whatever the value of retried.
RetriesAlways(rq) == TRUE

\* The catch clause retries: if (!retried).
Retries(rq) == ~rq.retried

\* The fetch of requestJson settles: a body is returned, or the error (a
\* rejected fetch, the timeout's abort, a body that is not JSON, a status
\* that is not allowed) is caught and leads to ensureStarted and the retry,
\* or is thrown on.
Fetch(outcome) ==
  /\ request.pc = "fetch"
  /\ request' =
       IF Returns(request, outcome)
       THEN [request EXCEPT !.sent = @ + 1, !.pc = "returned", !.result = outcome]
       ELSE IF Retries(request)
       THEN [request EXCEPT !.sent = @ + 1, !.pc = "ensure"]
       ELSE [request EXCEPT !.sent = @ + 1, !.pc = "thrown", !.result = outcome]
  /\ UNCHANGED <<base, proc, store, ident, call>>

\* ensureStarted's first healthCheck: healthy, the retry goes out; if not,
\* sessiond_unavailable without autoStart, else sessiond is spawned.
EnsureStarted(ok) ==
  /\ request.pc = "ensure"
  /\ request' =
       IF ok THEN [request EXCEPT !.healthy = TRUE, !.retried = TRUE, !.pc = "fetch"]
       ELSE IF ~request.autoStart
       THEN [request EXCEPT !.pc = "thrown", !.result = "sessiond_unavailable"]
       ELSE [request EXCEPT !.spawned = TRUE, !.pc = "waiting"]
  /\ UNCHANGED <<base, proc, store, ident, call>>

\* A healthCheck of the loop after the spawn: healthy, the retry goes out; if
\* not, the loop goes round until the deadline, then sessiond_unavailable.
AwaitHealth(ok, expired) ==
  /\ request.pc = "waiting"
  /\ ~ok /\ ~expired => request.checks < MaxHealthChecks
  /\ request' =
       IF ok THEN [request EXCEPT !.healthy = TRUE, !.retried = TRUE, !.pc = "fetch"]
       ELSE IF expired
       THEN [request EXCEPT !.pc = "thrown", !.result = "sessiond_unavailable"]
       ELSE [request EXCEPT !.checks = @ + 1]
  /\ UNCHANGED <<base, proc, store, ident, call>>

RequestInit ==
  /\ runners = [k \in Keys |-> NoRunner]
  /\ heap = [r \in RunnerIds |-> FreeSlot]
  /\ turns = [t \in TurnIds |-> NoTurn]
  /\ waiters = [w \in WaiterIds |-> NoWaiter]
  /\ streamsByChatKey = [k \in Keys |-> NewStream]
  /\ reply = ""
  /\ dedup = NoDedup
  /\ buf = NoBuf
  /\ bridge = NoBridge
  /\ store = NoStore
  /\ request \in RequestStarts
  /\ ident = NoIdent
  /\ proc = NoProc
  /\ call = NoCall

Fetches == \E outcome \in FetchOutcomes : Fetch(outcome)
EnsuresStarted == \E ok \in BOOLEAN : EnsureStarted(ok)
AwaitsHealth == \E ok \in BOOLEAN, expired \in BOOLEAN : AwaitHealth(ok, expired)

RequestNext ==
  \/ Fetches
  \/ EnsuresStarted
  \/ AwaitsHealth

RequestSpec == RequestInit /\ [][RequestNext]_vars

\* ---------------------------------------------------------------- IdentSpec
\* The session and conversation ids one CodexMcpClient harvests. An id is a
\* number of AgentIds, 0 where the field is null, absent or empty.
\*   sessionId, conversationId            the fields of the client
\*   firstSessionId, firstConversationId  the first non-empty value each
\*                                        field took since the last reset
\*   harvests                             the events and responses seen
AgentIds == 1..MaxAgentIds

\* What an event, its data, a response's meta or a content item carries:
\* session_id ?? sessionId and conversation_id ?? conversationId.
Candidates == [sid : {0} \cup AgentIds, cid : {0} \cup AgentIds]

NewIdent ==
  [sessionId |-> 0, conversationId |-> 0, firstSessionId |-> 0,
   firstConversationId |-> 0, harvests |-> 0]

\* The first non-empty values, brought up to date with the fields.
Harvested(id) ==
  [id EXCEPT !.firstSessionId = IF @ = 0 THEN id.sessionId ELSE @,
             !.firstConversationId = IF @ = 0 THEN id.conversationId ELSE @,
             !.harvests = @ + 1]

\* One candidate of updateIdentifiersFromEvent's loop: if (sid) ..., if (cid) ...
TakeCandidate(id, c) ==
  [id EXCEPT !.sessionId = IF c.sid # 0 THEN c.sid ELSE @,
             !.conversationId = IF c.cid # 0 THEN c.cid ELSE @]

\* One content item of extractIdentifiers' loop: taken only while the field
\* is empty.
TakeItem(id, c) ==
  [id EXCEPT !.sessionId = IF @ = 0 /\ c.sid # 0 THEN c.sid ELSE @,
             !.conversationId = IF @ = 0 /\ c.cid # 0 THEN c.cid ELSE @]

\* if (!this.conversationId && this.sessionId) this.conversationId = this.sessionId
FallBackToSession(id) ==
  [id EXCEPT !.conversationId = IF @ = 0 THEN id.sessionId ELSE @]

\* updateIdentifiersFromEvent(event): the event itself, then its data.
\* claude: the event is a line of the claude process (handleClaudeJsonLine),
\* after which the conversation id falls back to the session id.
UpdateIdentifiersFromEvent(event, data, claude) ==
  /\ ident.harvests < MaxHarvests
  /\ LET taken == TakeCandidate(TakeCandidate(ident, event), data)
     IN ident' = Harvested(IF claude THEN FallBackToSession(taken) ELSE taken)
  /\ UNCHANGED <<base, proc, store, request, call>>

\* extractIdentifiers(resp): resp.meta, then the content items.
ExtractIdentifiers(meta, item) ==
  /\ ident.harvests < MaxHarvests
  /\ ident' = Harvested(TakeItem(TakeCandidate(ident, meta), item))
  /\ UNCHANGED <<base, proc, store, request, call>>

\* continueSession before its call: a session id is required, and the
\* conversation id falls back to it.
ContinueSession ==
  /\ ident.harvests < MaxHarvests
  /\ ident.sessionId # 0
  /\ ident' = Harvested(FallBackToSession(ident))
  /\ UNCHANGED <<base, proc, store, request, call>>

\* resetSessionState(): both ids are null again.
ResetSessionState ==
  /\ ident.sessionId # 0 \/ ident.conversationId # 0
  /\ ident' = [NewIdent EXCEPT !.harvests = ident.harvests]
  /\ UNCHANGED <<base, proc, store, request, call>>

IdentInit ==
  /\ runners = [k \in Keys |-> NoRunner]
  /\ heap = [r \in RunnerIds |-> FreeSlot]
  /\ turns = [t \in TurnIds |-> NoTurn]
  /\ waiters = [w \in WaiterIds |-> NoWaiter]
  /\ streamsByChatKey = [k \in Keys |-> NewStream]
  /\ reply = ""
  /\ dedup = NoDedup
  /\ buf = NoBuf
  /\ bridge = NoBridge
  /\ store = NoStore
  /\ request = NoRequest
  /\ ident = NewIdent
  /\ proc = NoProc
  /\ call = NoCall

HarvestsEvent ==
  \E event \in Candidates, data \in Candidates, claude \in BOOLEAN :
    UpdateIdentifiersFromEvent(event, data, claude)
HarvestsResponse == \E meta \in Candidates, item \in Candidates : ExtractIdentifiers(meta, item)

IdentNext ==
  \/ HarvestsEvent
  \/ HarvestsResponse
  \/ ContinueSession
  \/ ResetSessionState

IdentSpec == IdentInit /\ [][IdentNext]_vars

\* ------------------------------------------------------------- ResponseSpec
\* toElicitResponse applied to the decisions the elicitation handler is
\* resumed with. call.log is the sequence of the decisions and of the
\* responses returned for them.
\* The decisions of CodexApprovalDecision, and values outside the type.
ElicitDecisions == Decisions \cup {"", "approve", "always"}

\* toElicitResponse with denied and everything else declined.
toElicitResponseDeclining(decision) ==
  CASE decision = "approved" -> [action |-> "accept"]
    [] decision = "approved_for_session" -> [action |-> "accept"]
    [] OTHER -> [action |-> "decline"]

\* toElicitResponse(decision): the switch, its cases compared with ===.
toElicitResponse(decision) ==
  CASE decision = "approved" -> [action |-> "accept"]
    [] decision = "approved_for_session" -> [action |-> "accept"]
    [] decision = "denied" -> [action |-> "decline"]
    [] decision = "abort" -> [action |-> "cancel"]
    [] OTHER -> [action |-> "cancel"]

\* The elicitation handler is resumed with the decision and returns
\* toElicitResponse(decision).
ElicitResponse(decision) ==
  /\ call.fn = "toElicitResponse"
  /\ Len(call.log) < MaxResponses
  /\ call' = [call EXCEPT !.log = Append(@, [decision |-> decision,
                                              response |-> toElicitResponse(decision)])]
  /\ UNCHANGED <<base, proc, store, request, ident>>

ResponseInit ==
  /\ runners = [k \in Keys |-> NoRunner]
  /\ heap = [r \in RunnerIds |-> FreeSlot]
  /\ turns = [t \in TurnIds |-> NoTurn]
  /\ waiters = [w \in WaiterIds |-> NoWaiter]
  /\ streamsByChatKey = [k \in Keys |-> NewStream]
  /\ reply = ""
  /\ dedup = NoDedup
  /\ buf = NoBuf
  /\ bridge = NoBridge
  /\ store = NoStore
  /\ request = NoRequest
  /\ ident = NoIdent
  /\ proc = NoProc
  /\ call = [fn |-> "toElicitResponse", log |-> <<>>]

ResponseNext == \E decision \in ElicitDecisions : ElicitResponse(decision)

ResponseSpec == ResponseInit /\ [][ResponseNext]_vars

\* ------------------------------------------------------------ HeartbeatSpec
\* The heartbeat of one CodexManager.runTurn call. Time is in seconds, the
\* period of the timer; the call starts at second HeartbeatEvery, so that the
\* clock is as far from lastHeartbeatAt = 0 as Date.now() is.
\*   pc                 running, settled (the finally clause has run)
\*   now                the clock
\*   lastNonProgressAt, lastHeartbeatAt   the variables of the call
\*   pending            r.client.hasPendingApprovals()
\*   timer              the interval is set
\*   beats              the heartbeats passed to opts.onEvent: at and quiet
\*                      (the time, and the time since lastNonProgressAt),
\*                      pending (the pending_approval reported), approval
\*                      (whether one was pending), settled (pc was settled)
NewHeartbeat ==
  [pc |-> "running", now |-> HeartbeatEvery, lastNonProgressAt |-> HeartbeatEvery,
   lastHeartbeatAt |-> 0, pending |-> FALSE, timer |-> TRUE, beats |-> <<>>]

\* emit(e) of an event of the client while the call runs: an event that is
\* not a progress message moves lastNonProgressAt.
Emit(progress) ==
  /\ proc.pc = "running"
  /\ proc' = [proc EXCEPT !.lastNonProgressAt = IF progress THEN @ ELSE proc.now]
  /\ UNCHANGED others

\* An elicitation request arrives, or the pending one is resolved.
SetPending(pending) ==
  /\ proc.pc = "running"
  /\ proc.pending # pending
  /\ proc' = [proc EXCEPT !.pending = pending]
  /\ UNCHANGED others

\* A second passes and the interval's callback runs, if the interval is set:
\* nothing within HeartbeatEvery of lastNonProgressAt or of lastHeartbeatAt,
\* else a heartbeat (a progress message, so emit leaves lastNonProgressAt).
Tick ==
  LET now == proc.now + 1
      quiet == now - proc.lastNonProgressAt
      beat == [at |-> now, quiet |-> quiet, pending |-> proc.pending,
               approval |-> proc.pending, settled |-> proc.pc = "settled"]
  IN /\ proc.pc \in {"running", "settled"}
     /\ proc.now < HeartbeatEvery + MaxClock
     /\ proc' = IF proc.timer /\ quiet >= HeartbeatEvery
                   /\ now - proc.lastHeartbeatAt >= HeartbeatEvery
                THEN [proc EXCEPT !.now = now, !.lastHeartbeatAt = now,
                                  !.beats = Append(@, beat)]
                ELSE [proc EXCEPT !.now = now]
     /\ UNCHANGED others

\* The finally clause of runTurn. heartbeatTimer is declared by let inside
\* the try block and is not in scope in the finally clause: reading it there
\* throws a ReferenceError, which the inner try/catch swallows before
\* clearInterval is reached. The interval stays set; the event handler is
\* removed and the runner released.
SettleCall ==
  /\ proc.pc = "running"
  /\ proc' = [proc EXCEPT !.pc = "settled"]
  /\ UNCHANGED others

HeartbeatInit ==
  /\ runners = [k \in Keys |-> NoRunner]
  /\ heap = [r \in RunnerIds |-> FreeSlot]
  /\ turns = [t \in TurnIds |-> NoTurn]
  /\ waiters = [w \in WaiterIds |-> NoWaiter]
  /\ streamsByChatKey = [k \in Keys |-> NewStream]
  /\ reply = ""
  /\ dedup = NoDedup
  /\ buf = NoBuf
  /\ bridge = NoBridge
  /\ store = NoStore
  /\ request = NoRequest
  /\ ident = NoIdent
  /\ call = NoCall
  /\ proc = NewHeartbeat

Emits == \E progress \in BOOLEAN : Emit(progress)
SetsPending == \E pending \in BOOLEAN : SetPending(pending)

HeartbeatNext ==
  \/ Emits
  \/ SetsPending
  \/ Tick
  \/ SettleCall

HeartbeatSpec == HeartbeatInit /\ [][HeartbeatNext]_vars

\* ----------------------------------------------------------------- StopSpec
\* The claude subprocess of one turn and stopActiveClaudeProcess. Time is in
\* tenths of a second.
\*   pc           none (no killer timeout), grace (it is pending), over (it
\*                has run)
\*   stops        the calls of stopActiveClaudeProcess
\*   alive        the process runs
\*   exitCode     Node has seen it exit (proc.exitCode !== null)
\*   killed       proc.killed: a kill() of this ChildProcess has delivered a
\*                signal; it says nothing about the process having ended
\*   ignoresTerm  the process ignores SIGTERM
\*   active       this.activeClaudeProc is the process
\*   elapsed      the time since the stop
\*   signals      the signals delivered to the process
ChildStarts ==
  [pc : {"none"}, stops : {0}, alive : {TRUE}, exitCode : {FALSE}, killed : {FALSE},
   ignoresTerm : BOOLEAN, active : {TRUE}, elapsed : {0}, signals : {<<>>}]

\* proc.kill(signal): the signal is delivered and killed set while the
\* process has not been reaped; kill() of a process that has gone returns
\* false and leaves killed as it is.
Kill(p, signal) ==
  IF p.exitCode THEN p
  ELSE [p EXCEPT !.killed = TRUE, !.signals = Append(@, signal)]

\* stopActiveClaudeProcess(target): of abortPendingApprovals without a
\* target (the active process), of the abort handler of runClaudeTurn with
\* the child. SIGTERM and the killer timeout when the process has no exit
\* code and killed is false; activeClaudeProc is cleared.
StopActiveClaudeProcess(target) ==
  /\ proc.pc \in {"none", "grace", "over"}
  /\ proc.stops < MaxStops
  /\ target \/ proc.active
  /\ proc' = IF ~proc.exitCode /\ ~proc.killed
             THEN [Kill(proc, "SIGTERM") EXCEPT !.pc = "grace", !.elapsed = 0,
                                                !.stops = @ + 1, !.active = FALSE]
             ELSE [proc EXCEPT !.stops = @ + 1, !.active = FALSE]
  /\ UNCHANGED others

\* A tenth of a second of the grace window passes.
GraceTick ==
  /\ proc.pc = "grace"
  /\ proc.elapsed < KillGrace
  /\ proc' = [proc EXCEPT !.elapsed = @ + 1]
  /\ UNCHANGED others

\* The killer timeout runs when the grace window is over: SIGKILL when the
\* process has no exit code and killed is false.
Killer ==
  /\ proc.pc = "grace"
  /\ proc.elapsed = KillGrace
  /\ proc' = IF ~proc.exitCode /\ ~proc.killed
             THEN [Kill(proc, "SIGKILL") EXCEPT !.pc = "over"]
             ELSE [proc EXCEPT !.pc = "over"]
  /\ UNCHANGED others

\* The process ends: by itself, on a SIGTERM it does not ignore, or on
\* SIGKILL.
ChildEnds ==
  /\ proc.pc \in {"none", "grace", "over"}
  /\ proc.alive
  /\ proc.ignoresTerm /\ proc.signals # <<>> =>
       \E i \in 1..Len(proc.signals) : proc.signals[i] = "SIGKILL"
  /\ proc' = [proc EXCEPT !.alive = FALSE]
  /\ UNCHANGED others

\* Node sees the exit: exitCode is set.
ChildExit ==
  /\ proc.pc \in {"none", "grace", "over"}
  /\ ~proc.alive
  /\ ~proc.exitCode
  /\ proc' = [proc EXCEPT !.exitCode = TRUE]
  /\ UNCHANGED others

StopInit ==
  /\ runners = [k \in Keys |-> NoRunner]
  /\ heap = [r \in RunnerIds |-> FreeSlot]
  /\ turns = [t \in TurnIds |-> NoTurn]
  /\ waiters = [w \in WaiterIds |-> NoWaiter]
  /\ streamsByChatKey = [k \in Keys |-> NewStream]
  /\ reply = ""
  /\ dedup = NoDedup
  /\ buf = NoBuf
  /\ bridge = NoBridge
  /\ store = NoStore
  /\ request = NoRequest
  /\ ident = NoIdent
  /\ call = NoCall
  /\ proc \in ChildStarts

Stops == \E target \in BOOLEAN : StopActiveClaudeProcess(target)

StopNext ==
  \/ Stops
  \/ GraceTick
  \/ Killer
  \/ ChildEnds
  \/ ChildExit

StopSpec == StopInit /\ [][StopNext]_vars

\* --------------------------------------------------------------- MirrorSpec
\* The gateway's events of one turn mirrored into the web server's store: by
\* the onEvent of startChatTurn's pump, or by syncStreamFromSessiond when the
\* conversation has no local pump.
\*   chat, message  the chat and the turn's assistant message are in the store
\*   deltas         the deltas appended to the message's text
\*   pump           running, ended (runTurn settled by itself), failed (an
\*                  error was thrown out of onEvent), none (the sync mirrors)
\*   raised         the error thrown out of the mirroring, "" if none
\*   events         the events appended to the store's stream
MirrorStarts ==
  [chat : {TRUE}, message : {TRUE}, deltas : {0}, pump : {"running", "none"},
   raised : {""}, events : {<<"start">>}]

\* MemoryStore.appendToMessageText: the error it throws, "" when it appends.
AppendToMessageTextThrows(m) ==
  IF ~m.chat THEN "chat_not_found"
  ELSE IF ~m.message THEN "message_not_found"
  ELSE ""

CanMirror == Len(proc.events) < MaxMirrored + 1

\* onEvent of startChatTurn on an agent_message: appendToMessageText, then
\* the delta is appended to the stream. An error of appendToMessageText
\* leaves onEvent and SessiondClient.runTurn, and the catch clause of the
\* pump appends turn_error with its message.
PumpDelta ==
  LET err == AppendToMessageTextThrows(proc) IN
  /\ proc.pump = "running"
  /\ CanMirror
  /\ proc' = IF err = ""
             THEN [proc EXCEPT !.deltas = @ + 1, !.events = Append(@, "delta")]
             ELSE [proc EXCEPT !.raised = err, !.pump = "failed",
                               !.events = Append(@, "turn_error")]
  /\ UNCHANGED others

\* onEvent on any other event, and the pump's own end: runTurn returns (done)
\* or throws the gateway's error (turn_error).
PumpEvent(event) ==
  /\ proc.pump = "running"
  /\ CanMirror
  /\ proc' = [proc EXCEPT !.events = Append(@, event),
                          !.pump = IF event \in {"done", "turn_error"} THEN "ended" ELSE @]
  /\ UNCHANGED others

\* syncStreamFromSessiond on a delta: appendToMessageText inside try/catch,
\* then the delta is appended to the stream.
SyncDelta ==
  /\ proc.pump = "none"
  /\ CanMirror
  /\ proc' = [proc EXCEPT !.deltas = IF AppendToMessageTextThrows(proc) = "" THEN @ + 1 ELSE @,
                          !.events = Append(@, "delta")]
  /\ UNCHANGED others

\* syncStreamFromSessiond on any other event it mirrors.
SyncEvent(event) ==
  /\ proc.pump = "none"
  /\ CanMirror
  /\ proc' = [proc EXCEPT !.events = Append(@, event)]
  /\ UNCHANGED others

\* DELETE /api/chats/:chatId: the chat goes with its messages and its stream.
MirrorDeleteChat ==
  /\ proc.pump \in {"running", "none"}
  /\ proc.chat
  /\ proc' = [proc EXCEPT !.chat = FALSE, !.message = FALSE, !.events = <<>>]
  /\ UNCHANGED others

\* MemoryStore.replaceMessages with a list that leaves the message out.
ReplaceMessages ==
  /\ proc.pump \in {"running", "none"}
  /\ proc.chat /\ proc.message
  /\ proc' = [proc EXCEPT !.message = FALSE]
  /\ UNCHANGED others

MirroredEvents == {"approval_request", "progress", "codex_event", "done", "turn_error"}

MirrorInit ==
  /\ runners = [k \in Keys |-> NoRunner]
  /\ heap = [r \in RunnerIds |-> FreeSlot]
  /\ turns = [t \in TurnIds |-> NoTurn]
  /\ waiters = [w \in WaiterIds |-> NoWaiter]
  /\ streamsByChatKey = [k \in Keys |-> NewStream]
  /\ reply = ""
  /\ dedup = NoDedup
  /\ buf = NoBuf
  /\ bridge = NoBridge
  /\ store = NoStore
  /\ request = NoRequest
  /\ ident = NoIdent
  /\ call = NoCall
  /\ proc \in MirrorStarts

PumpEvents == \E event \in MirroredEvents : PumpEvent(event)
SyncEvents == \E event \in MirroredEvents : SyncEvent(event)

MirrorNext ==
  \/ PumpDelta
  \/ PumpEvents
  \/ SyncDelta
  \/ SyncEvents
  \/ MirrorDeleteChat
  \/ ReplaceMessages

MirrorSpec == MirrorInit /\ [][MirrorNext]_vars

\* ------------------------------------------------------------------ WebSpec
\* startChatTurn of the web server on its store and on its SessiondClient
\* together: the store's stream with its subscribers (store) and the known
\* cursor and the pumps (bridge), against the gateway.
\* startChatTurn when the gateway is not busy: resetStream and the start
\* event on the store, resetKnownCursor, and the pump, whose runTurn resets
\* the known cursor again, posts /v1/chats/start and sets its cursor to 0.
StartChatTurn ==
  /\ store.chat
  /\ CanAppend
  /\ ~isBusy(BridgeKey)
  /\ PostStart(BridgeKey, "default", BaseConfig)
  /\ store' = [StoreAppendEvent([store EXCEPT !.stream = resetStream(@)], "start")
                 EXCEPT !.local = TRUE, !.pumps = @ + 1]
  /\ bridge' = [bridge EXCEPT !.known = 0, !.local = TRUE,
                              !.pumps[NextTurn] = [pc |-> "list", after |-> 0]]
  /\ UNCHANGED <<dedup, buf, request, ident, call, proc>>

WebInit ==
  /\ runners = [k \in Keys |-> NoRunner]
  /\ heap = [r \in RunnerIds |-> FreeSlot]
  /\ turns = [t \in TurnIds |-> NoTurn]
  /\ waiters = [w \in WaiterIds |-> NoWaiter]
  /\ streamsByChatKey = [k \in Keys |-> NewStream]
  /\ reply = ""
  /\ dedup = NoDedup
  /\ buf = NoBuf
  /\ bridge = NoBridge
  /\ store = StoreStarts
  /\ request = NoRequest
  /\ ident = NoIdent
  /\ call = NoCall
  /\ proc = NoProc

\* A subscriber of the stream endpoint without a cursor.
Subscribes == \E c \in Connections : Connect(c, "", "")

WebNext ==
  \/ StartChatTurn
  \/ Subscribes
  \/ Closes
  \/ Polls
  \/ Runtimes
  \/ SyncRuntime
  \/ SyncList
  \/ Settles

WebSpec == WebInit /\ [][WebNext]_vars

\* ---------------------------------------------------------------- CallsSpec
\* Two agent calls in a row on one client. The first is the call of DedupSpec;
\* once it has settled (its backend sends nothing more for it) the next turn
\* makes the second one with startSession or with continueSession.

\* continueSession on client d without the statement that clears the flag.
continueSessionKeepingFlag(d, script) ==
  [d EXCEPT !.text = script.text, !.delta = script.delta,
            !.content = script.content, !.full = script.full,
            !.item = script.item, !.emitted = <<>>, !.raws = 0]

\* startSession on client d up to its agent call: after connect() the usage,
\* the rate limits and sawAssistantTextInFlight are cleared. script is what
\* the backend is going to send for this call; emitted and raws observe what
\* this call has passed to the event sink.
startSession(d, script) ==
  [d EXCEPT !.saw = FALSE,
            !.text = script.text, !.delta = script.delta,
            !.content = script.content, !.full = script.full,
            !.item = script.item, !.emitted = <<>>, !.raws = 0]

\* continueSession on client d up to its agent call: the same clearing.
continueSession(d, script) ==
  [d EXCEPT !.saw = FALSE,
            !.text = script.text, !.delta = script.delta,
            !.content = script.content, !.full = script.full,
            !.item = script.item, !.emitted = <<>>, !.raws = 0]

\* The first call has settled and the next turn makes its agent call; proc
\* remembers which method made it, the flag the first call left and the script.
NextCall(method) ==
  /\ proc = NoProc
  /\ \E script \in DedupStarts :
       /\ script.backend = dedup.backend
       /\ dedup' = (IF method = "startSession" THEN startSession(dedup, script)
                    ELSE continueSession(dedup, script))
       /\ proc' = [pc |-> "second", method |-> method,
                   sawBefore |-> dedup.saw, script |-> script]
  /\ UNCHANGED <<gateway, reply, buf, bridge, store, request, ident, call>>

NextCalls == \E method \in {"startSession", "continueSession"} : NextCall(method)

CallsInit == DedupInit

CallsNext ==
  \/ DeliverDelta
  \/ DeliverContentDelta
  \/ DeliverFullMessage
  \/ DeliverRawItem
  \/ NextCalls

CallsSpec == CallsInit /\ [][CallsNext]_vars

\* ----------------------------------------------------------------- SinkSpec
\* One agent call's events of every shape, handled by the client's
\* notification handler (codex) or by runClaudeTurn's onStdoutLine (claude).

\* The shapes of a codex msg and of a claude output line. kind says what the
\* value is: null (for codex also a notification without msg), a scalar, an
\* object, and for a line also blank or text that is no JSON. An object has a
\* type; typed says that its text field is a string.
SinkKinds(backend) ==
  IF backend = "codex" THEN {"null", "scalar", "object"}
  ELSE {"blank", "not_json", "null", "scalar", "object"}

KnownTypes(backend) ==
  IF backend = "codex"
  THEN {"agent_message_delta", "agent_message_content_delta", "agent_message",
        "raw_response_item"}
  ELSE {"stream_event", "assistant"}

SinkMsgs(backend) ==
  {[kind |-> k, type |-> "", typed |-> FALSE, text |-> <<>>] :
     k \in SinkKinds(backend) \ {"object"}}
  \cup
  {[kind |-> "object", type |-> t, typed |-> ty, text |-> IF ty THEN Text ELSE <<>>] :
     t \in KnownTypes(backend) \cup {"other"}, ty \in BOOLEAN}

NoMsg == [kind |-> "none", type |-> "", typed |-> FALSE, text |-> <<>>]

\* extractUsage reads v.usage without testing v: it throws on null and on
\* undefined.
extractUsageThrows(v) == v.kind = "null"

\* The codex/event notification handler on msg: updateIdentifiersFromEvent
\* (which tests isObj), extractUsage, extractRateLimits, then the cases of
\* CodexEvent, whose tests fail on a value that is no object and on a text
\* that is no string.
NotificationHandler(saw, msg) ==
  IF extractUsageThrows(msg)
  THEN [saw |-> saw, emits |-> <<>>, threw |-> TRUE]
  ELSE IF msg.kind = "object" /\ msg.typed
       THEN [saw |-> CodexEvent(saw, msg).saw,
             emits |-> CodexEvent(saw, msg).emits, threw |-> FALSE]
       ELSE [saw |-> saw, emits |-> <<RawEvent>>, threw |-> FALSE]

\* onStdoutLine on a line: a blank line is skipped; a line JSON.parse rejects,
\* and one handleClaudeJsonLine throws on, goes out as a raw claude_stdout
\* event from the catch; the others are handled by handleClaudeJsonLine.
onStdoutLine(saw, line) ==
  IF line.kind = "blank"
  THEN [saw |-> saw, emits |-> <<>>, threw |-> FALSE]
  ELSE IF line.kind = "not_json" \/ extractUsageThrows(line)
       THEN [saw |-> saw, emits |-> <<RawEvent>>, threw |-> FALSE]
       ELSE IF line.kind = "object" /\ line.typed
            THEN [saw |-> ClaudeJsonLine(saw, line).saw,
                  emits |-> ClaudeJsonLine(saw, line).emits, threw |-> FALSE]
            ELSE [saw |-> saw, emits |-> <<RawEvent>>, threw |-> FALSE]

\* An agent call of a client: the events handled so far, the last of them with
\* what the handler passed to onEvent and whether it threw, and whether the
\* call has ended.
NewSink(backend) ==
  [pc |-> "sink", backend |-> backend, saw |-> FALSE, handled |-> 0,
   ended |-> FALSE, msg |-> NoMsg, emits |-> <<>>, threw |-> FALSE]

\* The backend sends one event or output line.
SinkEvent(msg) ==
  /\ proc.pc = "sink"
  /\ ~proc.ended
  /\ proc.handled < MaxSinkEvents
  /\ LET h == IF proc.backend = "codex" THEN NotificationHandler(proc.saw, msg)
              ELSE onStdoutLine(proc.saw, msg)
     IN proc' = [proc EXCEPT !.saw = h.saw, !.handled = @ + 1, !.msg = msg,
                             !.emits = h.emits, !.threw = h.threw]
  /\ UNCHANGED others

\* The agent call returns: callTool's response, or the subprocess closes.
SinkEnd ==
  /\ proc.pc = "sink"
  /\ ~proc.ended
  /\ proc' = [proc EXCEPT !.ended = TRUE]
  /\ UNCHANGED others

SinkInit ==
  /\ runners = [k \in Keys |-> NoRunner]
  /\ heap = [r \in RunnerIds |-> FreeSlot]
  /\ turns = [t \in TurnIds |-> NoTurn]
  /\ waiters = [w \in WaiterIds |-> NoWaiter]
  /\ streamsByChatKey = [k \in Keys |-> NewStream]
  /\ reply = ""
  /\ dedup = NoDedup
  /\ buf = NoBuf
  /\ bridge = NoBridge
  /\ store = NoStore
  /\ request = NoRequest
  /\ ident = NoIdent
  /\ call = NoCall
  /\ proc \in {NewSink(b) : b \in {"codex", "claude"}}

SinkEvents == \E msg \in SinkMsgs(proc.backend) : SinkEvent(msg)

SinkNext ==
  \/ SinkEvents
  \/ SinkEnd

SinkSpec == SinkInit /\ [][SinkNext]_vars

\* -------------------------------------------------------------- SessionSpec
\* CodexManager.runTurn called for a conversation that already holds an agent
\* session (a first turn has succeeded under some config). proc.startedWith
\* is history: the config of the startSession call that created the session
\* the client's sessionId names.
HeldRunner(config) ==
  [NewRunner("default") EXCEPT !.client.sessionId = 1,
                               !.sessionConfigKey = sessionConfigKey(config)]

\* The id harvested during a startSession call is that of the session the
\* call is creating, under the call's config.
StartedWith(t, sid) ==
  IF sid # 0 /\ turns[t].call = "startSession"
  THEN [proc EXCEPT !.startedWith = turns[t].nextConfigKey]
  ELSE proc

SessionStart ==
  /\ \E k \in Keys, config \in GatewayConfigs : RunTurn(k, "default", config, "none")
  /\ UNCHANGED <<dedup, buf, bridge, store, request, ident, call, proc>>

SessionEvent ==
  /\ \E t \in TurnIds, sid \in SessionIds \cup {0} :
       /\ AgentEvent(t, sid, [type |-> "task_started", text |-> <<>>])
       /\ proc' = StartedWith(t, sid)
  /\ UNCHANGED <<dedup, buf, bridge, store, request, ident, call>>

SessionAbort ==
  /\ \E k \in Keys : PostAbort(k)
  /\ UNCHANGED <<dedup, buf, bridge, store, request, ident, call, proc>>

SessionSettle ==
  /\ \E t \in TurnIds, outcome \in {"success", "error", "cancelled"},
        sid \in SessionIds \cup {0}, usage \in UsageOutcomes :
       /\ Settle(t, outcome, sid, usage)
       /\ proc' = IF outcome = "success" THEN StartedWith(t, sid) ELSE proc
  /\ UNCHANGED <<dedup, buf, bridge, store, request, ident, call>>

SessionInit ==
  /\ runners = [k \in Keys |-> 1]
  /\ \E config \in GatewayConfigs :
       /\ heap = [r \in RunnerIds |-> IF r = 1 THEN HeldRunner(config) ELSE FreeSlot]
       /\ proc = [pc |-> "session", startedWith |-> sessionConfigKey(config)]
  /\ turns = [t \in TurnIds |-> NoTurn]
  /\ waiters = [w \in WaiterIds |-> NoWaiter]
  /\ streamsByChatKey = [k \in Keys |-> NewStream]
  /\ reply = ""
  /\ dedup = NoDedup
  /\ buf = NoBuf
  /\ bridge = NoBridge
  /\ store = NoStore
  /\ request = NoRequest
  /\ ident = NoIdent
  /\ call = NoCall

SessionNext ==
  \/ SessionStart
  \/ SessionEvent
  \/ SessionAbort
  \/ SessionSettle

SessionSpec == SessionInit /\ [][SessionNext]_vars

\* -------------------------------------------------------------- ForwardSpec
\* One turn of SessiondClient.runTurn against the gateway, with what its poll
\* loop has passed to onEvent (the ids, in order) and the usage and rate
\* limits it holds for its return value.
Forwarded == {"progress", "delta", "approval_request", "codex_event"}

ForwardedIds(es) ==
  LET fs == SelectSeq(es, LAMBDA e : e.event \in Forwarded)
  IN [i \in 1..Len(fs) |-> fs[i].id]

Holds(es, kind) == \E i \in 1..Len(es) : es[i].event = kind

NewForward == [pc |-> "forward", forwarded |-> <<>>, usage |-> FALSE, rateLimits |-> FALSE]

\* runTurn up to its poll loop, for the first turn of the conversation.
ForwardStart ==
  /\ UsedTurns = {}
  /\ \E config \in GatewayConfigs : PostStart(BridgeKey, "default", config)
  /\ bridge' = [bridge EXCEPT !.known = 0, !.local = TRUE,
                              !.pumps[NextTurn] = [pc |-> "list", after |-> 0]]
  /\ UNCHANGED <<dedup, buf, rest>>

\* listEventsSince and the loop over its events: the cursors move, progress,
\* delta, approval_request and codex_event go to onEvent, codex_usage and
\* codex_rate_limits are kept for the return value.
ForwardList(t) ==
  LET es == listStreamEventsSince(streamsByChatKey[BridgeKey], bridge.pumps[t].after) IN
  /\ bridge.pumps[t].pc = "list"
  /\ bridge' = [bridge EXCEPT !.pumps[t].after = IF es = <<>> THEN @ ELSE LastId(es),
                              !.pumps[t].pc = "runtime",
                              !.known = MarkKnown(@, es)]
  /\ proc' = [proc EXCEPT !.forwarded = @ \o ForwardedIds(es),
                          !.usage = @ \/ Holds(es, "codex_usage"),
                          !.rateLimits = @ \/ Holds(es, "codex_rate_limits")]
  /\ UNCHANGED <<gateway, reply, dedup, buf, store, request, ident, call>>

ForwardLists == \E t \in TurnIds : ForwardList(t)

ForwardInit ==
  /\ runners = [k \in Keys |-> NoRunner]
  /\ heap = [r \in RunnerIds |-> FreeSlot]
  /\ turns = [t \in TurnIds |-> NoTurn]
  /\ waiters = [w \in WaiterIds |-> NoWaiter]
  /\ streamsByChatKey = [k \in Keys |-> NewStream]
  /\ reply = ""
  /\ dedup = NoDedup
  /\ buf = NoBuf
  /\ bridge = NoBridge
  /\ store = NoStore
  /\ request = NoRequest
  /\ ident = NoIdent
  /\ call = NoCall
  /\ proc = NewForward

ForwardNext ==
  \/ ForwardStart
  \/ ForwardLists
  \/ Runtimes
  \/ Event
  \/ Settles

ForwardSpec == ForwardInit /\ [][ForwardNext]_vars

\* ---------------------------------------------------------------- LocalSpec
\* The web server's buffer (store.stream) and assistant messages of one
\* conversation, written by startChatTurn, its pumps, syncStreamFromSessiond
\* and reconcileRuntimeStatus, against the gateway. A pump is numbered by its
\* send; the assistant message of send p is p. proc is history:
\*   origin   for each event appended to the buffer, in order of its data
\*            number: the gateway turn and gateway id it mirrors (0, 0 for an
\*            event the web server makes itself) and who wrote it
\*   texts    the deltas appended to assistant messages: message, turn, id
\*   msgOf    the assistantMessageId each gateway turn was started with (0:
\*            started elsewhere, a message this store does not have)
\*   usage, rateLimits   what the poll loop of each pump holds
\*   rebuild  shouldResetAssistantText of the sync under way
\*   syncTurn the gateway turn under way when the sync asked for the runtime
NewLocal ==
  [pc |-> "local", origin |-> <<>>, texts |-> <<>>,
   msgOf |-> [t \in TurnIds |-> 0],
   usage |-> [p \in TurnIds |-> FALSE], rateLimits |-> [p \in TurnIds |-> FALSE],
   rebuild |-> FALSE, syncTurn |-> 0]

\* The web server's state as one value: the store and the history.
LocalAppend(l, event, turn, gid, by) ==
  [st |-> StoreAppendEvent(l.st, event),
   pr |-> [l.pr EXCEPT !.origin = Append(@, [turn |-> turn, gid |-> gid, by |-> by])]]

\* The gateway turn whose events the gateway stream holds.
GatewayTurn == Cardinality(UsedTurns)

\* The loop body of SessiondClient.runTurn with the onEvent of startChatTurn,
\* for pump p on event e of gateway turn: progress, delta, approval_request
\* and codex_event are appended to the buffer, a delta's text to the pump's
\* assistant message first; usage and rate limits are held.
PumpOnEvent(l, p, turn, e) ==
  CASE e.event = "delta" ->
         LET a == LocalAppend(l, "delta", turn, e.id, "pump")
         IN [a EXCEPT !.pr.texts = Append(@, [msg |-> p, turn |-> turn, gid |-> e.id])]
    [] e.event \in {"progress", "approval_request", "codex_event"} ->
         LocalAppend(l, e.event, turn, e.id, "pump")
    [] e.event = "codex_usage" -> [l EXCEPT !.pr.usage[p] = TRUE]
    [] e.event = "codex_rate_limits" -> [l EXCEPT !.pr.rateLimits[p] = TRUE]
    [] OTHER -> l

RECURSIVE PumpOnEvents(_, _, _, _)
PumpOnEvents(l, p, turn, es) ==
  IF es = <<>> THEN l
  ELSE PumpOnEvents(PumpOnEvent(l, p, turn, Head(es)), p, turn, Tail(es))

\* The loop body of syncStreamFromSessiond on event e: every kind is appended
\* to the buffer; a start event empties the assistant message when the sync
\* rebuilds from scratch; a delta's text is appended to the message the event
\* names, when the store has it.
SyncOnEvent(l, turn, e) ==
  LET msg == l.pr.msgOf[turn] IN
  CASE e.event = "start" ->
         LET a == LocalAppend(l, "start", turn, e.id, "sync")
         IN [a EXCEPT !.pr.texts = IF l.pr.rebuild /\ msg # 0
                                   THEN SelectSeq(@, LAMBDA x : x.msg # msg)
                                   ELSE @,
                      !.pr.rebuild = FALSE]
    [] e.event = "delta" ->
         LET a == LocalAppend(l, "delta", turn, e.id, "sync")
         IN IF msg # 0
            THEN [a EXCEPT !.pr.texts = Append(@, [msg |-> msg, turn |-> turn, gid |-> e.id])]
            ELSE a
    [] OTHER -> LocalAppend(l, e.event, turn, e.id, "sync")

RECURSIVE SyncOnEvents(_, _, _)
SyncOnEvents(l, turn, es) ==
  IF es = <<>> THEN l
  ELSE SyncOnEvents(SyncOnEvent(l, turn, Head(es)), turn, Tail(es))

\* Room in the model for what the web server appends.
CanWrite == store.seq < MaxLocalEvents

NextSend == Cardinality({p \in TurnIds : bridge.pumps[p].pc # "none"}) + 1

\* codex.isBusy as the gateway answers it: GET /v1/chats/runtime, then
\* status === 'running' || busy.
GatewayBusy == streamsByChatKey'[BridgeKey].status = "running" \/ isBusy(BridgeKey)

\* startChatTurn from the answer of isBusy (not busy) to the start of its
\* pump: resetStream, the start event, resetKnownCursor, localTurnPumps.add.
\* The pump is about to post /v1/chats/start.
Send ==
  LET p == NextSend
      l == LocalAppend([st |-> [store EXCEPT !.stream = resetStream(@)], pr |-> proc],
                       "start", 0, 0, "send")
  IN /\ p \in TurnIds
     /\ store.chat
     /\ CanWrite
     /\ GetRuntime(BridgeKey)
     /\ ~GatewayBusy
     /\ store' = [l.st EXCEPT !.local = TRUE, !.pumps = @ + 1]
     /\ proc' = l.pr
     /\ bridge' = [bridge EXCEPT !.known = 0, !.local = TRUE,
                                 !.pumps[p] = [pc |-> "post", after |-> 0]]
     /\ UNCHANGED <<dedup, buf, request, ident, call>>

\* The finally of the pump's task: localTurnPumps.delete(key).
PumpEnds(st) == [st EXCEPT !.local = FALSE, !.pumps = @ - 1]

\* SessiondClient.runTurn of pump p up to its poll loop: resetKnownCursor and
\* POST /v1/chats/start. Refused with chat_busy it throws, and the pump
\* appends turn_error and ends.
Post(p) ==
  LET l == LocalAppend([st |-> store, pr |-> proc], "turn_error", 0, 0, "pump") IN
  /\ bridge.pumps[p].pc = "post"
  /\ PostStart(BridgeKey, "default", BaseConfig)
  /\ IF reply' = "chat_busy"
     THEN /\ store' = PumpEnds(l.st)
          /\ proc' = l.pr
          /\ bridge' = [bridge EXCEPT !.known = 0, !.local = FALSE, !.pumps[p].pc = "thrown"]
     ELSE /\ store' = store
          /\ proc' = [proc EXCEPT !.msgOf[NextTurn] = p]
          /\ bridge' = [bridge EXCEPT !.known = 0, !.pumps[p].pc = "list"]
  /\ UNCHANGED <<dedup, buf, request, ident, call>>

\* The poll loop of pump p lists the events after its cursor and handles them.
PumpList(p) ==
  LET es == listStreamEventsSince(streamsByChatKey[BridgeKey], bridge.pumps[p].after)
      l == PumpOnEvents([st |-> store, pr |-> proc], p, GatewayTurn, es)
  IN /\ bridge.pumps[p].pc = "list"
     /\ CanWrite
     /\ bridge' = [bridge EXCEPT !.pumps[p].after = IF es = <<>> THEN @ ELSE LastId(es),
                                 !.pumps[p].pc = "runtime",
                                 !.known = MarkKnown(@, es)]
     /\ store' = l.st
     /\ proc' = l.pr
     /\ UNCHANGED <<gateway, reply, dedup, buf, request, ident, call>>

\* What the pump appends once runTurn has returned.
RECURSIVE LocalAppendAll(_, _, _)
LocalAppendAll(l, events, by) ==
  IF events = <<>> THEN l
  ELSE LocalAppendAll(LocalAppend(l, Head(events), 0, 0, by), Tail(events), by)

\* The poll loop of pump p asks for the runtime: done returns and the pump
\* appends the usage, the rate limits and done; error throws and the pump
\* appends turn_error; either way the pump ends.
PumpRuntime(p) ==
  LET b == AfterRuntime(bridge, p, RuntimeOf(streamsByChatKey'[BridgeKey]))
      tail == IF b.pumps[p].pc = "returned"
              THEN (IF proc.usage[p] THEN <<"codex_usage">> ELSE <<>>)
                   \o (IF proc.rateLimits[p] THEN <<"codex_rate_limits">> ELSE <<>>)
                   \o <<"done">>
              ELSE IF b.pumps[p].pc = "thrown" THEN <<"turn_error">>
              ELSE <<>>
      l == LocalAppendAll([st |-> store, pr |-> proc], tail, "pump")
  IN /\ bridge.pumps[p].pc = "runtime"
     /\ CanWrite
     /\ GetRuntime(BridgeKey)
     /\ bridge' = b
     /\ store' = IF tail = <<>> THEN store ELSE PumpEnds(l.st)
     /\ proc' = l.pr
     /\ UNCHANGED <<dedup, buf, request, ident, call>>

\* reconcileRuntimeStatus without a local pump, up to the listEventsSince of
\* syncStreamFromSessiond: the runtime is asked for, a known cursor past
\* lastEventId is reset, and an empty buffer is reset when the sync rebuilds
\* from scratch.
LocalSyncRuntime ==
  LET rt == RuntimeOf(streamsByChatKey'[BridgeKey])
      stale == bridge.known > rt.lastEventId
      after == IF stale THEN 0 ELSE bridge.known
      rebuildFromScratch ==
        after = 0 /\ lastEventId(store.stream) = 0 /\ rt.lastEventId > 0
  IN /\ ~bridge.local
     /\ bridge.sync.pc = "idle"
     /\ GetRuntime(BridgeKey)
     /\ bridge' = [bridge EXCEPT !.known = IF stale THEN 0 ELSE @,
                                 !.sync = [pc |-> "list", after |-> after]]
     /\ store' = IF rebuildFromScratch THEN [store EXCEPT !.stream = resetStream(@)] ELSE store
     /\ proc' = [proc EXCEPT !.rebuild = rebuildFromScratch, !.syncTurn = GatewayTurn]
     /\ UNCHANGED <<dedup, buf, request, ident, call>>

\* The sync from the answer to its listEventsSince to the isBusy call of
\* reconcileRuntimeStatus, made when the buffer is running and the
\* conversation has no local pump.
LocalSyncList ==
  LET es == listStreamEventsSince(streamsByChatKey[BridgeKey], bridge.sync.after)
      l == SyncOnEvents([st |-> store, pr |-> proc], GatewayTurn, es)
      asks == l.st.stream.status = "running" /\ ~bridge.local
  IN /\ bridge.sync.pc = "list"
     /\ CanWrite
     /\ bridge' = [bridge EXCEPT !.known = MarkKnown(@, es),
                                 !.sync = [pc |-> IF asks THEN "busy" ELSE "idle", after |-> 0]]
     /\ store' = l.st
     /\ proc' = [l.pr EXCEPT !.rebuild = FALSE]
     /\ UNCHANGED <<gateway, reply, dedup, buf, request, ident, call>>

\* isBusy has answered reconcileRuntimeStatus: not busy, done is appended.
LocalReconcile ==
  LET l == LocalAppend([st |-> store, pr |-> proc], "done", 0, 0, "reconcile") IN
  /\ bridge.sync.pc = "busy"
  /\ CanWrite
  /\ GetRuntime(BridgeKey)
  /\ bridge' = [bridge EXCEPT !.sync.pc = "idle"]
  /\ store' = IF GatewayBusy THEN store ELSE l.st
  /\ proc' = IF GatewayBusy THEN proc ELSE l.pr
  /\ UNCHANGED <<dedup, buf, request, ident, call>>

\* Another client of the gateway starts a turn of the conversation.
StartElsewhere ==
  /\ ~isBusy(BridgeKey)
  /\ PostStart(BridgeKey, "default", BaseConfig)
  /\ UNCHANGED <<dedup, buf, bridge, rest>>

\* The agent sends an event or a text delta.
LocalEvent ==
  /\ \E t \in TurnIds, type \in {"task_started", "agent_message_delta"} :
       AgentEvent(t, 0, [type |-> type, text |-> Text])
  /\ UNCHANGED aux

LocalSettle ==
  /\ \E t \in TurnIds, outcome \in {"success", "error"}, usage \in UsageOutcomes :
       Settle(t, outcome, 0, usage)
  /\ UNCHANGED aux

LocalInit ==
  /\ runners = [k \in Keys |-> NoRunner]
  /\ heap = [r \in RunnerIds |-> FreeSlot]
  /\ turns = [t \in TurnIds |-> NoTurn]
  /\ waiters = [w \in WaiterIds |-> NoWaiter]
  /\ streamsByChatKey = [k \in Keys |-> NewStream]
  /\ reply = ""
  /\ dedup = NoDedup
  /\ buf = NoBuf
  /\ bridge = NoBridge
  /\ store = StoreStarts
  /\ request = NoRequest
  /\ ident = NoIdent
  /\ call = NoCall
  /\ proc = NewLocal

Posts == \E p \in TurnIds : Post(p)
PumpLists == \E p \in TurnIds : PumpList(p)
PumpRuntimes == \E p \in TurnIds : PumpRuntime(p)

LocalNext ==
  \/ Send
  \/ Posts
  \/ PumpLists
  \/ PumpRuntimes
  \/ LocalSyncRuntime
  \/ LocalSyncList
  \/ LocalReconcile
  \/ StartElsewhere
  \/ LocalEvent
  \/ LocalSettle

LocalSpec == LocalInit /\ [][LocalNext]_vars

\* --------------------------------------------------------------- EnsureSpec
\* Callers of SessiondClient.ensureStarted on one client. An attempt is the
\* async function ensureStarted starts; pc is check (its first healthCheck),
\* loop (sessiond spawned, the health-check loop), settled (its promise has
\* settled, the finally callback not yet run) or done. ensureInFlight is the
\* attempt the field's promise belongs to, 0 for null.
Attempts == 1..MaxAttempts
Callers == 1..MaxCallers

NoAttempt == [pc |-> "none", spawned |-> FALSE, checks |-> 0, result |-> ""]

NewEnsure(autoStart) ==
  [pc |-> "ensure", autoStart |-> autoStart, ensureInFlight |-> 0,
   attempts |-> [a \in Attempts |-> NoAttempt],
   callers |-> [c \in Callers |-> [pc |-> "idle", attempt |-> 0]]]

\* ensureStarted always starting an attempt of its own.
SharesNoAttempt(marker) == FALSE

\* if (this.ensureInFlight) return this.ensureInFlight
SharesAttempt(marker) == marker # 0

NextAttempt == Cardinality({a \in Attempts : proc.attempts[a].pc # "none"}) + 1

\* Caller c calls ensureStarted: it gets the promise in flight, or starts an
\* attempt, which runs up to its first healthCheck, and stores its promise.
EnsureCall(c) ==
  /\ proc.pc = "ensure"
  /\ proc.callers[c].pc = "idle"
  /\ IF SharesAttempt(proc.ensureInFlight)
     THEN proc' = [proc EXCEPT !.callers[c] = [pc |-> "awaiting", attempt |-> proc.ensureInFlight]]
     ELSE /\ NextAttempt \in Attempts
          /\ proc' = [proc EXCEPT !.ensureInFlight = NextAttempt,
                                  !.attempts[NextAttempt].pc = "check",
                                  !.callers[c] = [pc |-> "awaiting", attempt |-> NextAttempt]]
  /\ UNCHANGED others

\* The first healthCheck of attempt a answers: healthy, the attempt returns;
\* if not, it throws sessiond_unavailable without autoStart, else it spawns
\* sessiond and enters the loop.
FirstHealthCheck(a, ok) ==
  /\ proc.pc = "ensure"
  /\ proc.attempts[a].pc = "check"
  /\ proc' = IF ok
             THEN [proc EXCEPT !.attempts[a].pc = "settled", !.attempts[a].result = "ok"]
             ELSE IF ~proc.autoStart
             THEN [proc EXCEPT !.attempts[a].pc = "settled",
                               !.attempts[a].result = "sessiond_unavailable"]
             ELSE [proc EXCEPT !.attempts[a].pc = "loop", !.attempts[a].spawned = TRUE]
  /\ UNCHANGED others

\* A healthCheck of the loop of attempt a answers: healthy, the attempt
\* returns; past the deadline it throws; else it sleeps and goes round.
LoopHealthCheck(a, ok, expired) ==
  /\ proc.pc = "ensure"
  /\ proc.attempts[a].pc = "loop"
  /\ ~ok /\ ~expired => proc.attempts[a].checks < MaxHealthChecks
  /\ proc' = IF ok
             THEN [proc EXCEPT !.attempts[a].pc = "settled", !.attempts[a].result = "ok"]
             ELSE IF expired
             THEN [proc EXCEPT !.attempts[a].pc = "settled",
                               !.attempts[a].result = "sessiond_unavailable"]
             ELSE [proc EXCEPT !.attempts[a].checks = @ + 1]
  /\ UNCHANGED others

\* The finally callback of attempt a: ensureInFlight = null; the promise the
\* callers hold settles with the attempt's result.
EnsureFinally(a) ==
  /\ proc.pc = "ensure"
  /\ proc.attempts[a].pc = "settled"
  /\ proc' = [proc EXCEPT
                !.ensureInFlight = 0,
                !.attempts[a].pc = "done",
                !.callers = [c \in Callers |->
                               IF @[c].pc = "awaiting" /\ @[c].attempt = a
                               THEN [@[c] EXCEPT !.pc = IF proc.attempts[a].result = "ok"
                                                        THEN "returned" ELSE "thrown"]
                               ELSE @[c]]]
  /\ UNCHANGED others

EnsureInit ==
  /\ runners = [k \in Keys |-> NoRunner]
  /\ heap = [r \in RunnerIds |-> FreeSlot]
  /\ turns = [t \in TurnIds |-> NoTurn]
  /\ waiters = [w \in WaiterIds |-> NoWaiter]
  /\ streamsByChatKey = [k \in Keys |-> NewStream]
  /\ reply = ""
  /\ dedup = NoDedup
  /\ buf = NoBuf
  /\ bridge = NoBridge
  /\ store = NoStore
  /\ request = NoRequest
  /\ ident = NoIdent
  /\ call = NoCall
  /\ proc \in {NewEnsure(autoStart) : autoStart \in BOOLEAN}

EnsureCalls == \E c \in Callers : EnsureCall(c)
FirstHealthChecks == \E a \in Attempts, ok \in BOOLEAN : FirstHealthCheck(a, ok)
LoopHealthChecks == \E a \in Attempts, ok \in BOOLEAN, expired \in BOOLEAN : LoopHealthCheck(a, ok, expired)
EnsureFinallys == \E a \in Attempts : EnsureFinally(a)

EnsureNext ==
  \/ EnsureCalls
  \/ FirstHealthChecks
  \/ LoopHealthChecks
  \/ EnsureFinallys

EnsureSpec == EnsureInit /\ [][EnsureNext]_vars

\* ------------------------------------------------------------------ claims
\* The runTurn calls in flight for conversation key k.
TurnsInFlight(k) == {t \in TurnIds : InFlight(t) /\ turns[t].key = k}

\* C1: at most one turn is executing against a conversation at any time:
\* CodexManager.runTurn is never in flight twice for the same key, also when
\* reset is called while a turn runs and a new start follows.
AtMostOneTurnPerKey == \A k \in Keys : Cardinality(TurnsInFlight(k)) <= 1

\* What of conversation k a refused start has to leave alone.
RunningTurnOf(k) ==
  [runner |-> runners[k],
   busy |-> heap[runners[k]].busy,
   abort |-> heap[runners[k]].abort,
   sessionId |-> heap[runners[k]].client.sessionId,
   sessionConfigKey |-> heap[runners[k]].sessionConfigKey,
   stream |-> streamsByChatKey[k],
   turns |-> turns]

\* C2: a start (POST /v1/chats/start or CodexManager.runTurn) on a
\* conversation whose runner is busy is answered chat_busy and leaves the
\* busy flag, the cancellation handle, the session binding, the recorded
\* config key and the gateway stream (events, next id, status) as they were.
BusyStartRefused ==
  [][\A k \in Keys :
       (isBusy(k) /\ (\/ \E inst \in Instances, config \in GatewayConfigs : PostStart(k, inst, config)
                      \/ \E inst \in Instances, config \in ManagerConfigs, sig \in {"none", "live", "aborted"} :
                            RunTurn(k, inst, config, sig)))
         => reply' = "chat_busy" /\ RunningTurnOf(k)' = RunningTurnOf(k)]_vars

\* A start has been refused on a conversation whose turn is still running.
BusyStartRefusedWitness ==
  \E k \in Keys : reply = "chat_busy" /\ isBusy(k) /\ TurnsInFlight(k) # {}

\* C4: abort on a running conversation with pending approvals resolves every
\* pending approval to abort and empties the map before the cancellation
\* signal of the turn is raised, so that the signal is raised with nothing
\* pending and the turn can settle.
AbortReleasesApprovalsFirst ==
  [][\A k \in Keys :
       (isBusy(k) /\ hasPendingApprovals(heap[runners[k]].client) /\ PostAbort(k))
         => LET rid == runners[k]
                t == heap[rid].abort
            IN /\ heap'[rid].client.pendingApprovals = EmptyMap
               /\ \A w \in Resolvers(heap[rid].client) :
                     /\ waiters'[w].st = "resolved"
                     /\ waiters[w].st = "waiting" => waiters'[w].decision = "abort"
               /\ turns'[t].controller = "aborted"
               /\ turns[t].controller = "live" =>
                     turns'[t].cancels = 1 /\ turns'[t].pendingAtCancel = 0]_vars

\* An abort has released an approval and raised the signal of a running turn.
AbortReleasesApprovalsWitness ==
  \E t \in TurnIds :
    /\ InFlight(t)
    /\ turns[t].controller = "aborted"
    /\ turns[t].cancels = 1
    /\ heap[turns[t].runner].client.pendingApprovals = EmptyMap
    /\ \E w \in WaiterIds : waiters[w].st = "resolved" /\ waiters[w].decision = "abort"

\* The stream of conversation k holds a session_reset progress event.
SessionResetEmitted(s) ==
  \E i \in 1..Len(s.events) : s.events[i].event = "progress" /\ s.events[i].data = "session_reset"

\* C7: a turn requested on a conversation that holds an agent session, with
\* a config that differs in some component of (cwd, sandbox, approval policy,
\* model, reasoning effort) from the one recorded for the session, emits
\* session_reset, drops the session binding and calls startSession; with the
\* same config it calls continueSession on the session it holds.
ConfigChangeRestartsSession ==
  [][\A k \in Keys, config \in Configs :
       (/\ ~isBusy(k)
        /\ runners[k] # NoRunner
        /\ hasSession(heap[runners[k]].client)
        /\ PostStart(k, heap[runners[k]].instanceId, config)
        /\ reply' = "")
         => LET rid == runners[k]
                t == heap'[rid].abort
                differs == \E f \in ConfigFields :
                             NullishCoalesce(config[f]) # heap[rid].sessionConfigKey[f]
            IN IF differs
               THEN /\ SessionResetEmitted(streamsByChatKey'[k])
                    /\ heap'[rid].client.sessionId = 0
                    /\ turns'[t].call = "startSession"
               ELSE /\ ~SessionResetEmitted(streamsByChatKey'[k])
                    /\ heap'[rid].client.sessionId = heap[rid].client.sessionId
                    /\ turns'[t].call = "continueSession"]_vars

\* A second turn has restarted the session of its conversation.
ConfigChangeRestartsSessionWitness ==
  \E k \in Keys, t \in TurnIds :
    /\ InFlight(t) /\ turns[t].key = k
    /\ turns[t].sessionReset
    /\ turns[t].call = "startSession"
    /\ SessionResetEmitted(streamsByChatKey[k])
    /\ heap[turns[t].runner].sessionConfigKey # UndefinedKey
    /\ heap[turns[t].runner].sessionConfigKey # turns[t].nextConfigKey

\* A second turn has continued the session of its conversation.
SessionContinuedWitness ==
  \E k \in Keys, t \in TurnIds :
    /\ InFlight(t) /\ turns[t].key = k
    /\ turns[t].call = "continueSession"
    /\ heap[turns[t].runner].sessionConfigKey = turns[t].nextConfigKey

\* C8: whenever the bridge's cursor is past the last event id the gateway
\* reports, the poll loop of SessiondClient.runTurn and
\* syncStreamFromSessiond both reset the cursor (their own and the known one)
\* to 0 and go on to fetch from the beginning of the gateway's buffer;
\* neither raises an error nor stops.
StaleCursorRefetches ==
  [][/\ \A t \in TurnIds :
          (/\ bridge.pumps[t].pc = "runtime"
           /\ bridge'.pumps[t].pc # "runtime"
           /\ bridge.pumps[t].after > lastEventId(streamsByChatKey'[BridgeKey]))
            => /\ bridge'.pumps[t].after = 0
               /\ bridge'.known = 0
               /\ bridge'.pumps[t].pc = "list"
     /\ (/\ bridge.sync.pc = "idle"
         /\ bridge'.sync.pc = "list"
         /\ bridge.known > lastEventId(streamsByChatKey'[BridgeKey]))
          => /\ bridge'.sync.after = 0
             /\ bridge'.known = 0]_vars

\* C9: whenever a runTurn call settles, the runner's busy flag is false and
\* its cancellation handle is cleared, so that isBusy of the conversation
\* is false and a following runTurn on it is accepted.
SettledLeavesIdle ==
  [][\A t \in TurnIds, k \in Keys :
       (InFlight(t) /\ turns[t].key = k /\ turns'[t].st = "settled") => ~isBusy(k)']_vars

\* Cursors a reader may hold against stream s: none, the ends of what is
\* retained and their neighbours, and one past everything.
Cursors(s) ==
  {a \in {0, 1, s.nextId - Len(s.events) - 1, s.nextId - Len(s.events),
          s.nextId - 2, s.nextId - 1, s.nextId} : a >= 0}

\* The events of es whose id is greater than a, es being in id order: what is
\* left of es after its events with an id up to a.
RetainedAfter(es, a) ==
  SubSeq(es, Cardinality({i \in 1..Len(es) : es[i].id <= a}) + 1, Len(es))

\* C5: in every reachable state of an event buffer (MemoryStore's or the
\* gateway's) the retained ids are consecutive and increasing, the last one
\* is nextId - 1, and listStreamEventsSince(id) is exactly the retained
\* events with a greater id, in order.
BufferIdsConsecutive ==
  LET es == buf.stream.events
      n == Len(es)
  IN /\ \A i \in 1..(n - 1) : es[i + 1].id = es[i].id + 1
     /\ n > 0 => es[n].id = buf.stream.nextId - 1
     /\ \A a \in Cursors(buf.stream) :
          listStreamEventsSince(buf.stream, a) = RetainedAfter(es, a)

\* A buffer that has been trimmed is read from a cursor inside it.
BufferIdsConsecutiveWitness ==
  /\ buf.kind = "store"
  /\ buf.appended > StoreMaxEvents
  /\ Len(listStreamEventsSince(buf.stream, buf.stream.nextId - 2)) = 1

\* The buffer holds at most its capacity, and what it holds are the events
\* appended last, under consecutive ids.
NewestRetained ==
  LET es == buf.stream.events
      n == Len(es)
  IN /\ n <= Capacity(buf.kind)
     /\ n = IF buf.appended < Capacity(buf.kind) THEN buf.appended ELSE Capacity(buf.kind)
     /\ \A i \in 1..n : es[i].data = buf.appended - n + i /\ es[i].id = buf.stream.nextId - 1 - n + i

\* An append leaves every event it retains as it was, the new one last, and
\* moves nextId on by one whether it trims or not.
AppendTrimsOldest ==
  buf'.appended = buf.appended + 1 =>
    LET es == buf.stream.events
        es1 == buf'.stream.events
        drop == Len(es) + 1 - Len(es1)
    IN /\ drop \in {0, 1}
       /\ \A i \in 1..(Len(es1) - 1) : es1[i] = es[i + drop]
       /\ es1[Len(es1)].id = buf.stream.nextId
       /\ buf'.stream.nextId = buf.stream.nextId + 1

\* C6: after any number of appends the buffer holds at most its capacity
\* (2000 in the web server, 4000 in the gateway), the retained events are the
\* most recently appended, their ids contiguous; trimming removes only the
\* oldest and changes neither a retained id nor the next id.
BufferKeepsNewest == []NewestRetained /\ [][AppendTrimsOldest]_vars

\* Both buffers have been filled past capacity and trimmed.
BufferKeepsNewestWitness ==
  /\ buf.kind = "gateway"
  /\ buf.appended = GatewayMaxEvents + 2
  /\ Len(buf.stream.events) = GatewayMaxEvents
  /\ buf.stream.events[1].id = 3
  /\ buf.stream.events[1].data = 3

\* The backend has sent all it had to send.
DedupDone ==
  /\ dedup.backend # ""
  /\ dedup.delta = <<>> /\ dedup.content = <<>>
  /\ dedup.full = 0 /\ dedup.item = 0

\* C3: whatever the order in which the deltas, the content deltas and the
\* full message (or raw assistant item) of one turn arrive, all carrying the
\* same text, the emitted agent_message events concatenate to that text once.
AssistantTextOnce ==
  DedupDone /\ dedup.emitted # <<>> => dedup.emitted = dedup.text

\* C10: whichever of CodexManager.abort and the caller's signal cancels a
\* running turn, the agent call is cancelled once and no approval of the
\* conversation is pending when it is.
CancelledOnceAfterApprovals ==
  \A t \in TurnIds :
    InFlight(t) /\ turns[t].controller = "aborted"
      => turns[t].cancels = 1 /\ turns[t].pendingAtCancel = 0

\* C11: the status of a conversation's gateway stream changes only from any
\* status to running by an accepted start, from running to done or error,
\* and to idle by reset, which leaves the log empty and the conversation
\* without runner, so that the next turn starts a session. A stream the
\* sweep deletes after the idle TTL has ended; the next access makes a new
\* one.
StreamStatusMoves ==
  [][\A k \in Keys :
       LET a == streamsByChatKey[k].status
           b == streamsByChatKey'[k].status
       IN a # b =>
            \/ /\ b = "running"
               /\ \E t \in TurnIds :
                     /\ turns[t].st = "none"
                     /\ turns'[t].st = "calling" /\ turns'[t].gateway /\ turns'[t].key = k
            \/ /\ b \in {"done", "error"}
               /\ a = "running"
            \/ /\ b = "idle"
               /\ streamsByChatKey'[k].events = <<>>
               /\ runners'[k] = NoRunner
            \/ /\ a # "running"
               /\ Sweep(k, TRUE)]_vars

\* The terminal events of a log.
Terminals(s) ==
  Cardinality({i \in 1..Len(s.events) : s.events[i].event \in {"done", "turn_error"}})

\* A turn started through the gateway settles in this step with this outcome.
GatewayTurnSettles(t, outcome) ==
  /\ turns[t].gateway
  /\ \E sid \in SessionIds \cup {0}, usage \in UsageOutcomes : Settle(t, outcome, sid, usage)

\* The settling of a gateway turn appends one terminal event, as the last
\* event of its conversation's stream: done when the agent call returned,
\* turn_error when it failed or was cancelled; and no other step of a turn
\* in flight appends one.
OneTerminalEventPerTurn ==
  /\ \A t \in TurnIds, outcome \in {"success", "error", "cancelled"} :
       GatewayTurnSettles(t, outcome) =>
         LET s == streamsByChatKey[turns[t].key]
             s1 == streamsByChatKey'[turns[t].key]
         IN /\ Terminals(s1) = Terminals(s) + 1
            /\ s1.events[Len(s1.events)].event = IF outcome = "success" THEN "done" ELSE "turn_error"
            /\ s1.status = IF outcome = "success" THEN "done" ELSE "error"
  /\ \A k \in Keys :
       (/\ Terminals(streamsByChatKey'[k]) > Terminals(streamsByChatKey[k]))
         => \E t \in TurnIds, outcome \in {"success", "error", "cancelled"} :
              turns[t].key = k /\ GatewayTurnSettles(t, outcome)

\* The agent call of turn t returns or fails.
SettleTurn(t) ==
  /\ \E outcome \in {"success", "error", "cancelled"}, sid \in SessionIds \cup {0},
        usage \in UsageOutcomes :
       Settle(t, outcome, sid, usage)
  /\ UNCHANGED aux

\* StartSpec with every agent call returning or failing in the end.
TurnSpec == StartSpec /\ \A t \in TurnIds : WF_vars(SettleTurn(t))

\* C12: every turn accepted by POST /v1/chats/start appends exactly one
\* terminal event to the stream of its conversation, done on success and
\* turn_error on a failure or a cancellation of the agent call; and, every
\* agent call returning or failing, no started turn stays in flight and no
\* stream stays running for ever.
TurnEndsWithOneTerminal ==
  /\ [][OneTerminalEventPerTurn]_vars
  /\ \A t \in TurnIds : (InFlight(t) /\ turns[t].gateway) ~> ~InFlight(t)
  /\ \A k \in Keys : streamsByChatKey[k].status = "running" ~> streamsByChatKey[k].status # "running"

\* A gateway turn has been cancelled and has settled, and turn_error is the
\* one terminal event of its stream.
TurnEndsWithOneTerminalWitness ==
  \E k \in Keys :
    LET s == streamsByChatKey[k] IN
    /\ s.status = "error"
    /\ Terminals(s) = 1
    /\ s.events[Len(s.events)] = [id |-> s.nextId - 1, event |-> "turn_error", data |-> "cancelled"]
    /\ ~isBusy(k)
    /\ \E t \in TurnIds : turns[t].st = "settled"

\* Waiter w is resumed in this step with decision d, for the first time.
ReceivesOnce(w, d) ==
  /\ waiters[w].st = "waiting"
  /\ waiters'[w].st = "resolved"
  /\ waiters'[w].decision = d
  /\ waiters'[w].resolutions = 1

\* approve on client c of runner rid resolves the entry under key: that
\* entry leaves the map, its waiter receives d, nothing else changes.
ResolvesEntry(rid, key, d) ==
  LET c == heap[rid].client IN
  /\ ReceivesOnce(c.pendingApprovals[key], d)
  /\ \A w \in WaiterIds \ {c.pendingApprovals[key]} : waiters'[w] = waiters[w]
  /\ heap' = [heap EXCEPT ![rid].client.pendingApprovals = MapDelete(@, key)]
  /\ UNCHANGED <<runners, turns, streamsByChatKey>>

\* C13: approve(id, decision) resolves the entry stored under id; when none
\* is and exactly one approval is pending, that one; otherwise it returns
\* false and changes nothing. The resolved entry leaves the map and its
\* waiter receives the decision once. Every stored resolver is of a waiter
\* still waiting.
ApproveResolvesOne ==
  /\ [](\A k \in Keys :
          runners[k] # NoRunner =>
            LET c == heap[runners[k]].client
                pending == DOMAIN c.pendingApprovals
            IN /\ \A id \in pending : waiters[c.pendingApprovals[id]].st = "waiting"
               /\ \A id \in ApprovalIds :
                    ApproveFails(k, id) <=> (id \notin pending /\ Cardinality(pending) # 1))
  /\ [][\A k \in Keys, id \in ApprovalIds, d \in Decisions :
          (runners[k] # NoRunner /\ PostApprove(k, id, d)) =>
            LET c == heap[runners[k]].client
                pending == DOMAIN c.pendingApprovals
            IN IF id \in pending THEN ResolvesEntry(runners[k], id, d)
               ELSE IF Cardinality(pending) = 1
                    THEN \E key \in pending : ResolvesEntry(runners[k], key, d)
                    ELSE UNCHANGED gateway]_vars

\* Of two approvals pending on one client, one has been denied through
\* approve and the other is still pending.
ApproveResolvesOneWitness ==
  \E k \in Keys, w1, w2 \in WaiterIds :
    /\ runners[k] # NoRunner
    /\ waiters[w1].st = "resolved" /\ waiters[w1].decision = "denied"
    /\ waiters[w1].resolutions = 1
    /\ waiters[w2].st = "waiting"
    /\ Resolvers(heap[runners[k]].client) = {w2}

\* The events connection c has received through its subscription.
Received(c) ==
  SubSeq(store.conns[c].written, store.conns[c].backlog + 1, Len(store.conns[c].written))

\* C14: every listener of a conversation's stream is called with each
\* appended event, once and in the order of appending, and the ids a
\* listener receives while it stays subscribed are strictly increasing.
SubscribersSeeIncreasingIds ==
  /\ [][\A c \in store.listeners :
          store'.seq = store.seq + 1 =>
            /\ Len(store'.conns[c].written) = Len(store.conns[c].written) + 1
            /\ store'.conns[c].written[Len(store'.conns[c].written)].data = store'.seq
            /\ \A i \in 1..Len(store.conns[c].written) :
                 store'.conns[c].written[i] = store.conns[c].written[i]]_vars
  /\ [](\A c \in store.listeners :
          \A i, j \in 1..Len(Received(c)) : i < j => Received(c)[i].id < Received(c)[j].id)

\* C20: over the lifetime of a conversation appendStreamEvent never assigns
\* an id it has assigned before, whatever appends, trims and stream resets
\* come between.
EventIdsNeverReused ==
  \A i, j \in 1..Len(store.assigned) : i # j => store.assigned[i] # store.assigned[j]

\* The cursor the claim gives: the header when it is a finite number, else
\* the after parameter when it is one, else 0.
CursorOf(header, query) ==
  IF header # "" /\ ToNumber(header).finite THEN ToNumber(header).n
  ELSE IF query # "" /\ ToNumber(query).finite THEN ToNumber(query).n
  ELSE 0

\* Connection c has its backlog written in this step.
Replays(c) ==
  /\ store.conns[c].pc \in {"none", "awaiting"}
  /\ store'.conns[c].pc \in {"live", "ended"}

\* The stream endpoint in one step: the cursor, the backlog, the events that
\* come while the response is live, and its end on a terminal event.
StreamStep ==
  \A c \in Connections :
    /\ \A header \in HeaderValues, query \in QueryValues :
         Connect(c, header, query) => store'.conns[c].after = CursorOf(header, query)
    /\ Replays(c) =>
         store'.conns[c].written =
           SelectSeq(store'.stream.events, LAMBDA e : e.id > store'.conns[c].after)
    /\ (store.conns[c].pc = "live" /\ store'.seq = store.seq + 1) =>
         /\ Len(store'.conns[c].written) = Len(store.conns[c].written) + 1
         /\ store'.conns[c].written =
              Append(store.conns[c].written, store'.conns[c].written[Len(store'.conns[c].written)])
         /\ store'.conns[c].written[Len(store'.conns[c].written)].data = store'.seq
         /\ IsTerminal(store'.conns[c].written[Len(store'.conns[c].written)].event)
              => store'.conns[c].pc = "ended"

\* C15: the stream endpoint takes its cursor from Last-Event-ID when that is
\* a finite number, else from the after parameter, else 0; it writes the
\* retained events after the cursor in id order, then every later event
\* once, none skipped or written twice; and the response ends once a done or
\* turn_error has been written or the stream is no longer running.
StreamReplaysThenFollows ==
  /\ [][StreamStep]_vars
  /\ \A c \in Connections :
       (store.conns[c].pc = "live" /\ store.stream.status # "running")
         ~> store.conns[c].pc # "live"

\* The window with these four fields and nothing else.
Window(usedPercent, remainingPercent, used, limit) ==
  [isRecord |-> TRUE, used_percent |-> usedPercent, usedPercent |-> JsUndefined,
   remaining_percent |-> remainingPercent, used |-> used, limit |-> limit]

\* The used_percent the claim gives for window raw: the explicit field (the
\* first given of its aliases) when it is a number, else 100 less the
\* remaining percent, else used / limit * 100 within 0..100 when limit > 0,
\* else none.
UsedPercentOf(raw) ==
  LET explicit == normalizeNumeric(IF raw.used_percent.t \in {"undefined", "null"}
                                   THEN raw.usedPercent ELSE raw.used_percent)
      remaining == normalizeNumeric(raw.remaining_percent)
      used == normalizeNumeric(raw.used)
      limit == normalizeNumeric(raw.limit)
      quotient == (used.n * 100) \div limit.n
  IN IF ~explicit.isNull THEN SomeNumber(explicit.n)
     ELSE IF ~remaining.isNull THEN SomeNumber(100 - remaining.n)
     ELSE IF ~used.isNull /\ ~limit.isNull /\ limit.n > 0
          THEN SomeNumber(IF quotient < 0 THEN 0 ELSE IF quotient > 100 THEN 100 ELSE quotient)
     ELSE NoNumber

\* C16: normalizeRateLimitWindow gives used_percent 40 for {used_percent: 40},
\* {remaining_percent: 60} and {used: 40, limit: 100}; in general the explicit
\* used percent, else 100 less the remaining percent, else used / limit * 100
\* clamped to 0..100 when limit > 0, and null when none of the three is there.
RateWindowNormalized ==
  (call.fn = "normalizeRateLimitWindow" /\ call.done) =>
    /\ call.arg.isRecord =>
         /\ call.result.isNull = UsedPercentOf(call.arg).isNull
         /\ ~call.result.isNull => call.result.used_percent = UsedPercentOf(call.arg).n
    /\ ~call.arg.isRecord => call.result.isNull
    /\ call.arg \in {Window(JsNumber(40), JsUndefined, JsUndefined, JsUndefined),
                     Window(JsUndefined, JsNumber(60), JsUndefined, JsUndefined),
                     Window(JsUndefined, JsUndefined, JsNumber(40), JsNumber(100))}
         => call.result = [isNull |-> FALSE, used_percent |-> 40]

\* {used: 150, limit: 100} has been normalized, to the clamped 100.
RateWindowNormalizedWitness ==
  /\ call.fn = "normalizeRateLimitWindow" /\ call.done
  /\ call.arg = Window(JsUndefined, JsUndefined, JsNumber(150), JsNumber(100))
  /\ call.result = [isNull |-> FALSE, used_percent |-> 100]

\* C17: a gateway request that fails is retried once, and only after
\* ensureStarted has found the gateway healthy; the retry's failure is thrown
\* to the caller; no request is sent more than twice; a failed liveness
\* check is thrown without a retry.
RetriedOnceWhenHealthy ==
  /\ [](/\ request.sent <= 2
        /\ request.retried => request.healthy
        /\ request.sent = 2 => request.retried
        /\ request.pc = "returned" => Returns(request, request.result)
        /\ request.pc = "thrown" =>
             \/ request.sent = 2 /\ request.result \in FetchOutcomes
                  /\ ~Returns(request, request.result)
             \/ request.sent = 1 /\ ~request.healthy /\ request.result = "sessiond_unavailable")
  /\ [][\A outcome \in FetchOutcomes :
          (Fetch(outcome) /\ ~Returns(request, outcome)) =>
             IF request.sent = 0
             THEN request'.pc = "ensure"
             ELSE request'.pc = "thrown" /\ request'.result = outcome]_vars

\* A request has failed, sessiond has been spawned and found healthy after a
\* failed check, and the retry has failed too and been thrown.
RetriedOnceWhenHealthyWitness ==
  /\ request.pc = "thrown"
  /\ request.sent = 2
  /\ request.spawned /\ request.checks > 0 /\ request.healthy
  /\ request.result = "timeout"

\* C18: once a non-empty session id or conversation id has been harvested,
\* it is the one retained until the session state is reset: each field holds
\* the first non-empty value it took since the last reset.
FirstIdRetained ==
  /\ ident.sessionId = ident.firstSessionId
  /\ ident.conversationId = ident.firstConversationId

\* C19: the approval decision is answered with accept for approved and
\* approved_for_session, with decline for denied, and with cancel for abort
\* and for any other value.
DecisionMapsToAction ==
  call.fn = "toElicitResponse" =>
    \A i \in 1..Len(call.log) :
      LET d == call.log[i].decision
          a == call.log[i].response.action
      IN /\ d \in {"approved", "approved_for_session"} => a = "accept"
         /\ d = "denied" => a = "decline"
         /\ d \notin {"approved", "approved_for_session", "denied"} => a = "cancel"

\* An abort and a value outside the type have both been answered with cancel,
\* and a denial with decline.
DecisionMapsToActionWitness ==
  /\ call.fn = "toElicitResponse"
  /\ \E i, j, l \in 1..Len(call.log) :
       /\ call.log[i].decision = "abort" /\ call.log[i].response.action = "cancel"
       /\ call.log[j].decision = "always" /\ call.log[j].response.action = "cancel"
       /\ call.log[l].decision = "denied" /\ call.log[l].response.action = "decline"


\* C21: reconcileRuntimeStatus appends its done to the store's stream only
\* when the stream is running and no local turn pump owns the conversation,
\* on the gateway's answer that it is not busy: whatever startChatTurn does
\* meanwhile, the done never enters the stream of a turn a local pump drives.
ReconciledDoneWithoutPump ==
  [][\A c \in Connections :
       (\/ ConnectResume(c, FALSE)
        \/ Poll(c, FALSE) /\ store'.seq = store.seq + 1)
       => ~store.local /\ store.pumps = 0 /\ store.stream.status = "running"]_vars


\* The last event of stream s is the synthesized done.
EndsReconciled(s) ==
  /\ s.events # <<>>
  /\ s.events[Len(s.events)].event = "done"
  /\ s.events[Len(s.events)].data = "reconciled"

\* C22: a sweep or a runtime query that finds a gateway stream running while
\* its runner is not busy appends a synthesized done, and the status is done
\* after it; a done is synthesized for no stream whose runner is busy.
RunningIdleStreamReconciled ==
  /\ [][\A k \in Keys :
          (/\ GetRuntime(k) \/ \E expired \in BOOLEAN : Sweep(k, expired)
           /\ streamsByChatKey[k].status = "running"
           /\ ~isBusy(k))
          => /\ streamsByChatKey'[k].status = "done"
             /\ streamsByChatKey'[k].nextId = streamsByChatKey[k].nextId + 1
             /\ EndsReconciled(streamsByChatKey'[k])]_vars
  /\ [][\A k \in Keys :
          (/\ streamsByChatKey'[k].nextId = streamsByChatKey[k].nextId + 1
           /\ EndsReconciled(streamsByChatKey'[k]))
          => streamsByChatKey[k].status = "running" /\ ~isBusy(k)]_vars

\* No gateway stream is running while its runner is not busy: the handlers
\* mark a stream running and its runner busy together, and a settled turn's
\* terminal event follows the runner's release before any sweep or query.
NoRunningIdleStream ==
  \A k \in Keys : streamsByChatKey[k].status = "running" => isBusy(k)


\* C23: a heartbeat is emitted only when HeartbeatEvery seconds have passed
\* since the last event that is not a progress event and since the previous
\* heartbeat; progress events and heartbeats leave the quiet period running;
\* a heartbeat reports whether an approval is pending; none is emitted once
\* the turn has settled.
HeartbeatsWhileQuietAndRunning ==
  /\ [](proc.pc \in {"running", "settled"} =>
          \A i \in 1..Len(proc.beats) :
            /\ proc.beats[i].quiet >= HeartbeatEvery
            /\ i > 1 => proc.beats[i].at - proc.beats[i - 1].at >= HeartbeatEvery
            /\ proc.beats[i].pending = proc.beats[i].approval
            /\ ~proc.beats[i].settled)
  /\ [][(Emit(TRUE) \/ Len(proc'.beats) > Len(proc.beats))
          => proc'.lastNonProgressAt = proc.lastNonProgressAt]_vars


\* C26: stopping the subprocess sends it SIGTERM, and SIGKILL when it has
\* not exited by the end of the grace window: once the killer timeout has
\* run, a process that was stopped is about to end or has been sent SIGKILL.
StoppedProcessIsKilled ==
  /\ (proc.pc \in {"none", "grace", "over"} /\ proc.stops > 0 /\ proc.alive) =>
       proc.signals # <<>> /\ proc.signals[1] = "SIGTERM"
  /\ (proc.pc = "over" /\ proc.alive /\ proc.ignoresTerm) =>
       \E i \in 1..Len(proc.signals) : proc.signals[i] = "SIGKILL"


\* C25: a delta whose assistant message is no longer in the store is dropped
\* without failing: mirroring it, by the pump or by the sync, raises no
\* error, appends no turn_error and leaves the pump running.
MissingMessageDeltaDropped ==
  [][((PumpDelta \/ SyncDelta) /\ ~(proc.chat /\ proc.message))
       => /\ proc'.raised = ""
          /\ proc'.pump = proc.pump
          /\ proc'.deltas = proc.deltas
          /\ proc'.events[Len(proc'.events)] # "turn_error"]_vars


\* C24: resetStream empties the event log, sets the next id to 1 and the
\* status to running, and the subscribers stay; a turn the web server starts
\* resets the known cursor to 0 with the store's stream, whose only event is
\* then the start event with id 1, and the new pump polls from cursor 0.
StartResetsStreamAndCursor ==
  /\ [](LET s == resetStream(store.stream)
        IN s.events = <<>> /\ s.nextId = 1 /\ s.status = "running")
  /\ [][store'.pumps = store.pumps + 1 =>
          /\ store'.listeners = store.listeners
          /\ Len(store'.stream.events) = 1
          /\ store'.stream.events[1].id = 1
          /\ store'.stream.events[1].event = "start"
          /\ store'.stream.nextId = 2
          /\ store'.stream.status = "running"
          /\ bridge'.known = 0
          /\ \E t \in TurnIds :
               /\ bridge.pumps[t].pc = "none"
               /\ bridge'.pumps[t] = [pc |-> "list", after |-> 0]]_vars

\* A second turn has been started while a response was subscribed and the
\* known cursor had moved: the subscriber is still there, the stream holds
\* the start event alone and the known cursor is 0.
StartResetsStreamAndCursorWitness ==
  /\ store.pumps = 2
  /\ store.listeners # {}
  /\ Len(store.assigned) = 2
  /\ Len(store.stream.events) = 1
  /\ bridge.known = 0
  /\ \E t \in TurnIds : bridge.pumps[t].pc \in {"returned", "thrown"} /\ bridge.pumps[t].after > 0

\* C27: every agent call starts with the emitted-text flag clear, whichever of
\* startSession and continueSession makes it, and a call whose backend streams
\* no delta and no raw item but sends the full message has emitted exactly the
\* text once that message is handled, also when the previous call on the
\* client left the flag set.
FlagClearAtEveryCall ==
  /\ [][proc' # proc => ~dedup'.saw]_vars
  /\ [](/\ proc.pc = "second"
        /\ proc.script.delta = <<>>
        /\ proc.script.item = 0
        /\ proc.script.full = 1
        /\ dedup.full = 0
        => dedup.emitted = Text)

FlagClearAtEveryCallWitness ==
  /\ proc.pc = "second"
  /\ proc.method = "continueSession"
  /\ proc.sawBefore
  /\ proc.script.delta = <<>>
  /\ proc.script.item = 0
  /\ proc.script.full = 1
  /\ dedup.full = 0
  /\ dedup.emitted = Text

\* C28: an event or output line the handlers do not recognize (no object, a
\* type they do not know, a text that is no string, a line that is no JSON)
\* goes to the event sink as exactly one raw event, and the handler does not
\* throw on it.
Unrecognized(backend, msg) ==
  /\ msg.kind \notin {"none", "blank"}
  /\ \/ msg.kind # "object"
     \/ ~msg.typed
     \/ msg.type \notin KnownTypes(backend)

UnrecognizedForwardedRaw ==
  (proc.pc = "sink" /\ Unrecognized(proc.backend, proc.msg))
    => (proc.emits = <<RawEvent>> /\ ~proc.threw)

\* C29: a turn calls continueSession only when its config is the config of
\* the startSession call that created the session the client holds, also
\* after a startSession call that failed or was cancelled once the id of its
\* session had been harvested from an event.
ContinuesSessionOfSameConfig ==
  \A t \in TurnIds :
    (InFlight(t) /\ turns[t].call = "continueSession")
      => proc.startedWith = turns[t].nextConfigKey

\* C30: when SessiondClient.runTurn returns, every progress, delta,
\* approval_request and codex_event the gateway appended for the turn has
\* been passed to onEvent in id order, and the usage and rate limits it
\* returns are those the gateway appended.
ReturnedAfterForwardingAll ==
  \A t \in TurnIds :
    bridge.pumps[t].pc = "returned"
      => LET es == streamsByChatKey[BridgeKey].events
         IN /\ proc.forwarded = ForwardedIds(es)
            /\ proc.usage = Holds(es, "codex_usage")
            /\ proc.rateLimits = Holds(es, "codex_rate_limits")

\* C31: at most one local turn pump of the conversation is active (inside its
\* runTurn poll loop) at any time.
ActivePumps == {t \in TurnIds : bridge.pumps[t].pc \in {"list", "runtime"}}

AtMostOneLocalPump == Cardinality(ActivePumps) <= 1

\* The events of the local buffer with what each mirrors.
BufferOrigins ==
  [i \in 1..Len(store.stream.events) |-> proc.origin[store.stream.events[i].data]]

\* C32: no gateway event is in the local buffer twice, and no delta's text
\* has been appended to an assistant message twice, whoever wrote them.
MirroredAtMostOnce ==
  proc.pc = "local" =>
    /\ \A i, j \in 1..Len(store.stream.events) :
         (i < j /\ BufferOrigins[i].gid # 0)
           => ~(/\ BufferOrigins[i].turn = BufferOrigins[j].turn
                /\ BufferOrigins[i].gid = BufferOrigins[j].gid)
    /\ \A i, j \in 1..Len(proc.texts) : i < j => proc.texts[i] # proc.texts[j]

\* C33: a start the gateway refuses with chat_busy leaves the local buffer
\* and the known cursor as they were: nothing is appended and the status is
\* not latched to error.
RefusedStartLeavesBuffer ==
  [][\A p \in TurnIds :
       (Post(p) /\ reply' = "chat_busy")
         => (store'.stream = store.stream /\ bridge'.known = bridge.known)]_vars

\* C34: between two resets the local buffer holds at most one terminal event
\* (done, turn_error), and nothing is appended after it.
OneTerminalEventLast ==
  proc.pc = "local" =>
    \A i \in 1..Len(store.stream.events) :
      IsTerminal(store.stream.events[i].event) => i = Len(store.stream.events)

\* C35: when a syncStreamFromSessiond that began after a turn was started
\* elsewhere has handled the answer to its listEventsSince, every event the
\* gateway holds of that turn, from id 1 on, is in the local buffer (the web
\* server having sent nothing itself).
SyncMirrorsNewTurnFromStart ==
  [][(/\ bridge.sync.pc = "list"
      /\ bridge'.sync.pc # "list"
      /\ NextSend = 1
      /\ GatewayTurn > 0
      /\ proc.syncTurn = GatewayTurn
      /\ proc.msgOf[GatewayTurn] = 0)
       => \A id \in 1..lastEventId(streamsByChatKey[BridgeKey]) :
            \E i \in 1..Len(store'.stream.events) :
              LET o == proc'.origin[store'.stream.events[i].data]
              IN o.turn = GatewayTurn /\ o.gid = id]_vars

\* C36: every elicitation request handler that awaits a decision during an
\* agent call has its resolver in the pending map of the call's client, so
\* that approve and abortPendingApprovals can reach it.
WaitingRequestsReachable ==
  \A w \in WaiterIds :
    (waiters[w].st = "waiting" /\ InFlight(waiters[w].turn))
      => w \in Resolvers(heap[turns[waiters[w].turn].runner].client)

\* The attempts whose function is still running.
Running == {a \in Attempts : proc.attempts[a].pc \in {"check", "loop"}}

\* C37: at most one ensureStarted attempt runs at a time (one health-check
\* loop, one spawn); ensureInFlight names an attempt exactly from its start
\* until its finally callback, after success and after failure; a call made
\* while it is null starts a fresh attempt, a call made while it is set
\* shares the attempt in flight.
OneAttemptInFlight ==
  /\ [](proc.pc = "ensure" =>
          /\ Cardinality(Running) <= 1
          /\ \A a \in Attempts :
               proc.attempts[a].pc \in {"check", "loop", "settled"}
                 <=> proc.ensureInFlight = a)
  /\ [][\A c \in Callers :
          (proc.pc = "ensure" /\ proc.callers[c].pc = "idle" /\ proc'.callers[c].pc = "awaiting")
            => IF proc.ensureInFlight = 0
               THEN proc.attempts[proc'.callers[c].attempt].pc = "none"
               ELSE /\ proc'.callers[c].attempt = proc.ensureInFlight
                    /\ proc'.attempts = proc.attempts]_vars

\* Two callers have shared a first attempt that spawned sessiond and failed,
\* and a third caller's later call has started a second attempt, which is in
\* its loop.
OneAttemptInFlightWitness ==
  /\ proc.pc = "ensure"
  /\ proc.attempts[1].pc = "done"
  /\ proc.attempts[1].spawned
  /\ proc.attempts[1].result = "sessiond_unavailable"
  /\ Cardinality({c \in Callers : proc.callers[c].pc = "thrown" /\ proc.callers[c].attempt = 1}) = 2
  /\ proc.attempts[2].pc = "loop"
  /\ proc.ensureInFlight = 2

====
